---- MODULE Spec2Model ----
(***************************************************************************)
(* A model of the layout and geometry core of visualkeras:                 *)
(*   - model_to_adj_matrix, find_input_layers, model_to_hierarchy_lists    *)
(*     (layer_utils.py), run as one pipeline over a layer graph;           *)
(*   - extract_primary_shape (layer_utils.py);                             *)
(*   - calculate_layer_dimensions (layer_utils.py) and self_multiply       *)
(*     (utils.py).                                                         *)
(* Each part has its own specification; the variables of the other parts   *)
(* stay at their idle values.                                              *)
(***************************************************************************)
EXTENDS Integers, Sequences, FiniteSets, TLC

VARIABLES
    \* ---- layer graph pipeline ----
    layers,             \* get_layers(model): the layer ids in model order
    inbound,            \* per layer, its inbound connection records, in order
    id_to_num_mapping,  \* id(layer) -> dense index, first-seen order
    adj_matrix,         \* edge-count matrix, indexed <<src, tgt>>
    li,                 \* position of the `for layer in layers` loop
    hierarchy,          \* list of levels, each a list of layer ids
    prev_layers,        \* set of layers admitted so far
    finished,           \* loop flag of model_to_hierarchy_lists
    gpc,                \* position in the graph pipeline
    \* ---- extract_primary_shape ----
    raw_shape,          \* the argument layer_output_shape
    shape_out,          \* what the call produced
    spc,                \* position of the call
    \* ---- calculate_layer_dimensions ----
    dim_args,           \* the arguments of the call
    dim_out,            \* what the call produced
    dpc,                \* position of the call
    \* ---- a sequence of calculate_layer_dimensions calls ----
    cmp_args,           \* the arguments of each call, in calling order
    cmp_out,            \* what the calls made so far produced
    cpc,                \* position in the sequence
    \* ---- self_multiply ----
    mul_arg,            \* the argument tensor_tuple
    mul_out,            \* what the call produced
    mpc,                \* position of the call
    \* ---- layered_view ----
    model_layers,       \* model.layers: each a type, an output_shape, a spacing
    lv_opts,            \* the keyword arguments of layered_view
    index,              \* position of `for index, layer in enumerate(...)`
    boxes,              \* the boxes placed so far
    layer_y,            \* per box, its height with the depth offset
    current_z,          \* the running coordinate
    x_off,              \* horizontal offset of the scene (-1 until a box is placed)
    img_height,         \* tallest box so far
    max_right,          \* rightmost extent so far
    img_width,          \* width of the canvas before rounding
    img,                \* the canvas: Image.new(..., (width, height))
    lpc,                \* position in layered_view
    \* ---- layered_view, drawing ----
    lines,              \* the funnel segments drawn so far, in drawing order
    drawn,              \* the boxes whose box.draw call has returned
    last_box,           \* position in boxes of last_box, 0 for None
    di,                 \* position of the running `for box in ...` loop
    draw_error,         \* the exception the drawing raised, "none" if none
    \* ---- ColorWheel ----
    colors,             \* self.colors
    cache,              \* self._cache: class type -> colour
    calls,              \* the get_color calls made so far, with their outcomes
    \* ---- graph_view ----
    gv_opts,            \* the keyword arguments of graph_view
    layer_attrs,        \* per layer, its units or filters attribute
    model_io,           \* model.inputs, input_shape, output_shape, output layers
    inputs,             \* what line 61 or 64 computed
    outputs,            \* what line 62 or 65 computed
    current_x,          \* x of the column being created
    ci,                 \* position of `for index, layer_list in enumerate(...)`
    id_to_node_list_map,\* id(layer) -> the nodes last created for it
    gv_layers,          \* `layers`: the columns of nodes
    gv_layer_y,         \* `layer_y`: per column, its height
    gv_img,             \* the canvas: Image.new(..., (width, height))
    connectors,         \* the _draw_connector calls made, in order
    first_img,          \* the image of an earlier call on the same model
    vpc                 \* position in graph_view

graph_vars == <<layers, inbound, id_to_num_mapping, adj_matrix, li, hierarchy,
                prev_layers, finished, gpc>>
shape_vars == <<raw_shape, shape_out, spc>>
dim_vars   == <<dim_args, dim_out, dpc>>
cmp_vars   == <<cmp_args, cmp_out, cpc>>
mul_vars   == <<mul_arg, mul_out, mpc>>
layout_vars == <<model_layers, lv_opts, index, boxes, layer_y, current_z, x_off,
                 img_height, max_right, img_width, img, lpc>>
draw_vars == <<lines, drawn, last_box, di, draw_error>>
wheel_vars == <<colors, cache, calls>>
view_vars == <<gv_opts, layer_attrs, model_io, inputs, outputs, current_x, ci,
               id_to_node_list_map, gv_layers, gv_layer_y, gv_img, connectors,
               first_img, vpc>>
vars == <<layers, inbound, id_to_num_mapping, adj_matrix, li, hierarchy,
          prev_layers, finished, gpc, raw_shape, shape_out, spc,
          dim_args, dim_out, dpc, cmp_args, cmp_out, cpc,
          mul_arg, mul_out, mpc, model_layers, lv_opts, index, boxes, layer_y,
          current_z, x_off, img_height, max_right, img_width, img, lpc,
          lines, drawn, last_box, di, draw_error, colors, cache, calls,
          gv_opts, layer_attrs, model_io, inputs, outputs, current_x, ci,
          id_to_node_list_map, gv_layers, gv_layer_y, gv_img, connectors,
          first_img, vpc>>

(***************************************************************************)
(* Bounds                                                                  *)
(***************************************************************************)
MaxLayers == 3
MaxEdges == 3
MaxShapeLen == 2
MaxOutputs == 2
MaxRank == 4
MaxTupleLen == 4
MaxModelLayers == 3
MaxColors == 3
MaxCalls == 5
\* graph_view: layers after the input layer, units of a layer, ellipsize_after
MaxChain == 2
MaxUnits == 4
MaxEllipsize == 3
\* graph_view on a whole model: the units of its Dense layers, the node cap,
\* the scalars of an input tensor
ViewUnits == 3
ViewEllipsize == 2
InputSizes == {1, 6}

(***************************************************************************)
(* Helpers on sequences                                                    *)
(***************************************************************************)
Range(s) == {s[k] : k \in 1..Len(s)}

SeqsUpTo(S, n) == UNION {[1..k -> S] : k \in 0..n}

Perms(S) == {p \in [1..Cardinality(S) -> S] : Range(p) = S}

Count(s, v) == Cardinality({k \in 1..Len(s) : s[k] = v})

(***************************************************************************)
(* model_to_adj_matrix                                                     *)
(***************************************************************************)
\* np.zeros((len(layers), len(layers)))
ZeroMatrix(n) == [c \in (0..(n - 1)) \X (0..(n - 1)) |-> 0]

\* if layer_id not in id_to_num_mapping: id_to_num_mapping[layer_id] = len(keys)
AssignIndex(map, lid) ==
    IF lid \in DOMAIN map THEN map
    ELSE map @@ (lid :> Cardinality(DOMAIN map))

\* an edge recorder that deduplicates: a boolean adjacency matrix
AddEdge_Boolean(adj, src, tgt) == [adj EXCEPT ![<<src, tgt>>] = 1]

\* adj_matrix[src, tgt] += 1
AddEdge(adj, src, tgt) == [adj EXCEPT ![<<src, tgt>>] = @ + 1]

\* the inner loop `for inbound_layer in get_incoming_layers(layer)`,
\* from record k on
RECURSIVE RecordInbound(_, _, _, _, _)
RecordInbound(recs, k, lid, map, adj) ==
    IF k > Len(recs) THEN [map |-> map, adj |-> adj]
    ELSE LET m2 == AssignIndex(map, recs[k])
         IN  RecordInbound(recs, k + 1, lid, m2, AddEdge(adj, m2[recs[k]], m2[lid]))

\* one iteration of `for layer in layers`
AdjLayer ==
    /\ gpc = "adj"
    /\ li <= Len(layers)
    /\ LET lid == layers[li]
           m1  == AssignIndex(id_to_num_mapping, lid)
           r   == RecordInbound(inbound[lid], 1, lid, m1, adj_matrix)
       IN  /\ id_to_num_mapping' = r.map
           /\ adj_matrix' = r.adj
    /\ li' = li + 1
    /\ gpc' = IF li = Len(layers) THEN "inputs" ELSE "adj"
    /\ UNCHANGED <<layers, inbound, hierarchy, prev_layers, finished>>
    /\ UNCHANGED <<shape_vars, dim_vars, cmp_vars, mul_vars,
                   layout_vars, wheel_vars, draw_vars, view_vars>>

(***************************************************************************)
(* find_input_layers                                                       *)
(***************************************************************************)
RECURSIVE SumCells(_, _)
SumCells(adj, cells) ==
    IF cells = {} THEN 0
    ELSE LET c == CHOOSE x \in cells : TRUE
         IN  adj[c] + SumCells(adj, cells \ {c})

\* the sum along the other axis, np.sum(adj_matrix, axis=1)[j]
ColumnSum_Axis1(adj, n, j) == SumCells(adj, {<<j, i>> : i \in 0..(n - 1)})

\* np.sum(adj_matrix, axis=0)[j]
ColumnSum(adj, n, j) == SumCells(adj, {<<i, j>> : i \in 0..(n - 1)})

\* get_keys_by_value
get_keys_by_value(d, v) == {key \in DOMAIN d : d[key] = v}

\* find_layer_by_id: the layer of the model with that id, if any
find_layer_by_id(ls, lid) == IF lid \in Range(ls) THEN {lid} ELSE {}

\* the layers find_input_layers yields
find_input_layers(ls, map, adj) ==
    UNION {UNION {find_layer_by_id(ls, key) : key \in get_keys_by_value(map, j)} :
           j \in {c \in 0..(Len(ls) - 1) : ColumnSum(adj, Len(ls), c) = 0}}

\* hierarchy = [set(find_input_layers(...))]; prev_layers = set(hierarchy[0]).
\* Level 0 is a Python set of layer objects: the order in which the first
\* sweep iterates it is not fixed by the program, so it is chosen here.
FindInputs ==
    /\ gpc = "inputs"
    /\ LET ins == find_input_layers(layers, id_to_num_mapping, adj_matrix)
       IN  /\ \E order \in Perms(ins) : hierarchy' = <<order>>
           /\ prev_layers' = ins
    /\ finished' = FALSE
    /\ gpc' = "sweep"
    /\ UNCHANGED <<layers, inbound, id_to_num_mapping, adj_matrix, li>>
    /\ UNCHANGED <<shape_vars, dim_vars, cmp_vars, mul_vars,
                   layout_vars, wheel_vars, draw_vars, view_vars>>

(***************************************************************************)
(* model_to_hierarchy_lists                                                *)
(***************************************************************************)
\* set(get_incoming_layers(end_layer))
get_incoming_layers(inb, lid) == Range(inb[lid])

\* np.where(adj_matrix[start_layer_idx] > 0)[0], ascending
RECURSIVE Successors(_, _, _, _)
Successors(adj, n, src, j) ==
    IF j >= n THEN <<>>
    ELSE (IF adj[<<src, j>>] > 0 THEN <<j>> ELSE <<>>) \o Successors(adj, n, src, j + 1)

\* the (start_layer, end_layer_idx) pairs one sweep visits, in visiting order
RECURSIVE SweepPairs(_, _, _, _, _)
SweepPairs(level, k, map, adj, n) ==
    IF k > Len(level) THEN <<>>
    ELSE LET succ == Successors(adj, n, map[level[k]], 0)
         IN  [q \in 1..Len(succ) |-> <<level[k], succ[q]>>]
             \o SweepPairs(level, k + 1, map, adj, n)

\* the admission test on one end layer
Admit(inb, end_layer, layer, prev) ==
    IF get_incoming_layers(inb, end_layer) \subseteq prev
    THEN [layer |-> IF end_layer \in Range(layer) THEN layer
                    ELSE Append(layer, end_layer),
          prev  |-> IF end_layer \in Range(layer) THEN prev
                    ELSE prev \cup {end_layer}]
    ELSE [layer |-> layer, prev |-> prev]

\* the body of the two nested for loops, over the visited pairs from p on
RECURSIVE SweepFrom(_, _, _, _, _, _, _)
SweepFrom(pairs, p, ls, map, inb, layer, prev) ==
    IF p > Len(pairs) THEN [layer |-> layer, prev |-> prev]
    ELSE LET ends == UNION {find_layer_by_id(ls, key) :
                            key \in get_keys_by_value(map, pairs[p][2])}
             r == IF ends = {} THEN [layer |-> layer, prev |-> prev]
                  ELSE Admit(inb, CHOOSE e \in ends : TRUE, layer, prev)
         IN  SweepFrom(pairs, p + 1, ls, map, inb, r.layer, r.prev)

\* the loop without `finished = True` at the head of the iteration: a pass
\* that visits no edge leaves the loop running
HierarchyPass_NoExit ==
    /\ gpc = "sweep"
    /\ ~finished
    /\ \E pairs \in {SweepPairs(hierarchy[Len(hierarchy)], 1, id_to_num_mapping,
                                adj_matrix, Len(layers))} :
       \E r \in {SweepFrom(pairs, 1, layers, id_to_num_mapping, inbound,
                           <<>>, prev_layers)} :
           /\ finished' = FALSE
           /\ prev_layers' = r.prev
           /\ hierarchy' = IF pairs = <<>> THEN hierarchy
                           ELSE Append(hierarchy, r.layer)
           /\ gpc' = "sweep"
    /\ UNCHANGED <<layers, inbound, id_to_num_mapping, adj_matrix, li>>
    /\ UNCHANGED <<shape_vars, dim_vars, cmp_vars, mul_vars,
                   layout_vars, wheel_vars, draw_vars, view_vars>>

\* one iteration of `while not finished`: the pairs the pass visits and the
\* level and prev_layers it ends with are computed once
HierarchyPass ==
    /\ gpc = "sweep"
    /\ ~finished
    /\ \E pairs \in {SweepPairs(hierarchy[Len(hierarchy)], 1, id_to_num_mapping,
                                adj_matrix, Len(layers))} :
       \E r \in {SweepFrom(pairs, 1, layers, id_to_num_mapping, inbound,
                           <<>>, prev_layers)} :
           /\ finished' = (pairs = <<>>)
           /\ prev_layers' = r.prev
           /\ hierarchy' = IF pairs = <<>> THEN hierarchy
                           ELSE Append(hierarchy, r.layer)
           /\ gpc' = IF pairs = <<>> THEN "done" ELSE "sweep"
    /\ UNCHANGED <<layers, inbound, id_to_num_mapping, adj_matrix, li>>
    /\ UNCHANGED <<shape_vars, dim_vars, cmp_vars, mul_vars,
                   layout_vars, wheel_vars, draw_vars, view_vars>>

(***************************************************************************)
(* Python values: None, int, str, tuple and list, as uniform records        *)
(***************************************************************************)
PyNone == [kind |-> "None", val |-> 0, items |-> <<>>]
PyInt(n) == [kind |-> "int", val |-> n, items |-> <<>>]
PyStr == [kind |-> "str", val |-> 0, items |-> <<>>]
PyTuple(xs) == [kind |-> "tuple", val |-> 0, items |-> xs]
PyList(xs) == [kind |-> "list", val |-> 0, items |-> xs]

\* the outcome of a call: a returned value with the warnings emitted on the
\* way, or a raised exception
Returned(v, w) == [status |-> "returned", value |-> v, warnings |-> w, error |-> "none"]
Raised(e, w) == [status |-> "raised", value |-> PyNone, warnings |-> w, error |-> e]
NoResult == [status |-> "pending", value |-> PyNone, warnings |-> {}, error |-> "none"]

(***************************************************************************)
(* extract_primary_shape                                                   *)
(***************************************************************************)
\* the default fallback shape (None, 1)
DefaultShape == PyTuple(<<PyNone, PyInt(1)>>)

\* an extract_primary_shape that lets an empty list fall into the
\* unsupported-format branch
extract_primary_shape_EmptyUnsupported(layer_output_shape) ==
    IF layer_output_shape.kind = "None"
    THEN Returned(DefaultShape, {"shape is None"})
    ELSE IF layer_output_shape.kind = "tuple"
    THEN IF /\ Len(layer_output_shape.items) > 0
            /\ layer_output_shape.items[1].kind \in {"tuple", "list"}
         THEN Returned(layer_output_shape.items[1], {"multi-output"})
         ELSE Returned(layer_output_shape, {})
    ELSE IF layer_output_shape.kind = "list" /\ Len(layer_output_shape.items) > 0
    THEN IF Len(layer_output_shape.items) = 1
         THEN Returned(layer_output_shape.items[1], {})
         ELSE Returned(layer_output_shape.items[1], {"multi-output"})
    ELSE Raised("RuntimeError", {})

extract_primary_shape(layer_output_shape) ==
    IF layer_output_shape.kind = "None"
    THEN Returned(DefaultShape, {"shape is None"})
    ELSE IF layer_output_shape.kind = "tuple"
    THEN IF /\ Len(layer_output_shape.items) > 0
            /\ layer_output_shape.items[1].kind \in {"tuple", "list"}
         THEN Returned(layer_output_shape.items[1], {"multi-output"})
         ELSE Returned(layer_output_shape, {})
    ELSE IF layer_output_shape.kind = "list"
    THEN IF Len(layer_output_shape.items) = 1
         THEN Returned(layer_output_shape.items[1], {})
         ELSE IF Len(layer_output_shape.items) > 1
         THEN Returned(layer_output_shape.items[1], {"multi-output"})
         ELSE Returned(DefaultShape, {"shape is an empty list"})
    ELSE Raised("RuntimeError", {})

\* the call shape = extract_primary_shape(layer.output_shape, layer_name)
ExtractPrimaryShape ==
    /\ spc = "call"
    /\ shape_out' = extract_primary_shape(raw_shape)
    /\ spc' = "done"
    /\ UNCHANGED raw_shape
    /\ UNCHANGED <<graph_vars, dim_vars, cmp_vars, mul_vars,
                   layout_vars, wheel_vars, draw_vars, view_vars>>

(***************************************************************************)
(* Numbers.  Python computes the pixel sizes in floats.  Here a scale       *)
(* factor is held in tenths (scale_xy = 5 stands for 0.5) and a computed    *)
(* size in hundredths of a pixel, so that dim * scale, the 0.6 and 0.3      *)
(* rates of smart_scale and int() are exact; bounds, caps and               *)
(* relative_base_size are whole pixels as the callers pass them.            *)
(***************************************************************************)
Px(n) == n * 100

Min2(a, b) == IF a <= b THEN a ELSE b
Max2(a, b) == IF a >= b THEN a ELSE b

\* dim * scale, in hundredths
Scaled(value, scale) == value * scale * 10

\* int(v) for v >= 0
IntTrunc(v) == (v \div 100) * 100

\* math.log10(value) in ten-thousandths, for values whose prime factors are
\* 2, 3, 5 and 7 (rounded per factor)
RECURSIVE Log10(_)
Log10(value) ==
    IF value <= 1 THEN 0
    ELSE IF value % 10 = 0 THEN 10000 + Log10(value \div 10)
    ELSE IF value % 5 = 0 THEN 6990 + Log10(value \div 5)
    ELSE IF value % 2 = 0 THEN 3010 + Log10(value \div 2)
    ELSE IF value % 3 = 0 THEN 4771 + Log10(value \div 3)
    ELSE IF value % 7 = 0 THEN 8451 + Log10(value \div 7)
    ELSE 0

(***************************************************************************)
(* self_multiply (utils.py)                                                *)
(***************************************************************************)
\* list.remove(None): drops the first None only
RECURSIVE RemoveFirstNone(_)
RemoveFirstNone(xs) ==
    IF xs = <<>> THEN <<>>
    ELSE IF xs[1].kind = "None" THEN Tail(xs)
    ELSE <<xs[1]>> \o RemoveFirstNone(Tail(xs))

RECURSIVE Product(_)
Product(xs) == IF xs = <<>> THEN 1 ELSE xs[1].val * Product(Tail(xs))

self_multiply(tensor_tuple) ==
    LET tensor_list == IF \E k \in 1..Len(tensor_tuple) : tensor_tuple[k].kind = "None"
                       THEN RemoveFirstNone(tensor_tuple)
                       ELSE tensor_tuple
    IN  IF Len(tensor_list) = 0 THEN Returned(PyInt(0), {})
        ELSE IF Len(tensor_list) = 1 THEN Returned(tensor_list[1], {})
        ELSE IF \E k \in 1..Len(tensor_list) : tensor_list[k].kind # "int"
        THEN Raised("TypeError", {})
        ELSE Returned(PyInt(Product(tensor_list)), {})

\* a call of self_multiply
SelfMultiply ==
    /\ mpc = "call"
    /\ mul_out' = self_multiply(mul_arg)
    /\ mpc' = "done"
    /\ UNCHANGED mul_arg
    /\ UNCHANGED <<graph_vars, shape_vars, dim_vars, cmp_vars,
                   layout_vars, wheel_vars, draw_vars, view_vars>>

(***************************************************************************)
(* calculate_layer_dimensions                                              *)
(***************************************************************************)
\* dims = [d for d in shape[1:] if isinstance(d, int) and d is not None]
RECURSIVE IntsOf(_)
IntsOf(xs) ==
    IF xs = <<>> THEN <<>>
    ELSE (IF xs[1].kind = "int" THEN <<xs[1].val>> ELSE <<>>) \o IntsOf(Tail(xs))

ExtractDims(shape) == IF Len(shape) = 0 THEN <<>> ELSE IntsOf(Tail(shape))

\* dims[2:], as Python values
DimsFrom2(dims) == [k \in 1..(Len(dims) - 2) |-> PyInt(dims[k + 2])]

\* dimension_caps.get(key, default) if dimension_caps else default
CapOf(dimension_caps, key, default) ==
    IF key \in DOMAIN dimension_caps THEN dimension_caps[key] ELSE default

channel_cap(a) == CapOf(a.dimension_caps, "channels", a.max_z)
sequence_cap(a) == CapOf(a.dimension_caps, "sequence", a.max_xy)
general_cap(a) == CapOf(a.dimension_caps, "general", Max2(a.max_z, a.max_xy))

\* a smart_scale without the reduced rates: full-rate scaling up to 2048
smart_scale_FullRate(value, base_scale, min_val, cap_val) ==
    IF value <= 2048
    THEN Min2(Max2(Scaled(value, base_scale), Px(min_val)), Px(cap_val))
    ELSE Min2(Max2((Log10(value) * base_scale * 15) \div 1000, Px(min_val)), Px(cap_val))

smart_scale(value, base_scale, min_val, cap_val) ==
    IF value <= 64
    THEN Min2(Max2(Scaled(value, base_scale), Px(min_val)), Px(cap_val))
    ELSE IF value <= 512
    THEN Min2(Max2(value * base_scale * 6, Px(min_val)), Px(cap_val))
    ELSE IF value <= 2048
    THEN Min2(Max2(value * base_scale * 3, Px(min_val)), Px(cap_val))
    ELSE Min2(Max2((Log10(value) * base_scale * 15) \div 1000, Px(min_val)), Px(cap_val))

log_scale(value, base_scale, min_val, cap_val) ==
    IF value <= 1 THEN Px(min_val)
    ELSE Min2(Max2((Log10(value) * base_scale * 20) \div 1000, Px(min_val)), Px(cap_val))

\* a proportional_scale that adds the scaled dimension to the minimum
proportional_scale_Offset(dimension, relative_base_size, min_val, max_val) ==
    IF dimension <= 0 THEN Px(min_val)
    ELSE Max2(Px(min_val), Min2(Px(min_val + dimension * relative_base_size), Px(max_val)))

proportional_scale(dimension, relative_base_size, min_val, max_val) ==
    IF dimension <= 0 THEN Px(min_val)
    ELSE Max2(Px(min_val), Min2(Px(dimension * relative_base_size), Px(max_val)))

\* an accurate mode that takes the 2-D depth from the first dimension
AccurateDims_DepthFromFirst(dims, a) ==
    IF Len(dims) = 1
    THEN IF a.one_dim_orientation = "y"
         THEN <<Px(a.min_xy),
                Min2(Max2(Scaled(dims[1], a.scale_xy), Px(a.min_xy)), Px(a.max_xy)),
                Px(a.min_z)>>
         ELSE <<Px(a.min_xy), Px(a.min_xy),
                Min2(Max2(Scaled(dims[1], a.scale_z), Px(a.min_z)), Px(a.max_z))>>
    ELSE IF Len(dims) = 2
    THEN <<Min2(Max2(Scaled(dims[1], a.scale_xy), Px(a.min_xy)), Px(a.max_xy)),
           Min2(Max2(Scaled(dims[2], a.scale_xy), Px(a.min_xy)), Px(a.max_xy)),
           Min2(Max2(Scaled(dims[1], a.scale_z), Px(a.min_z)), Px(a.max_z))>>
    ELSE <<Min2(Max2(Scaled(dims[1], a.scale_xy), Px(a.min_xy)), Px(a.max_xy)),
           Min2(Max2(Scaled(dims[2], a.scale_xy), Px(a.min_xy)), Px(a.max_xy)),
           Min2(Max2(Scaled(self_multiply(DimsFrom2(dims)).value.val, a.scale_z),
                     Px(a.min_z)), Px(a.max_z))>>

\* sizing_mode == 'accurate'
AccurateDims(dims, a) ==
    IF Len(dims) = 1
    THEN IF a.one_dim_orientation = "y"
         THEN <<Px(a.min_xy),
                Min2(Max2(Scaled(dims[1], a.scale_xy), Px(a.min_xy)), Px(a.max_xy)),
                Px(a.min_z)>>
         ELSE <<Px(a.min_xy), Px(a.min_xy),
                Min2(Max2(Scaled(dims[1], a.scale_z), Px(a.min_z)), Px(a.max_z))>>
    ELSE IF Len(dims) = 2
    THEN <<Min2(Max2(Scaled(dims[1], a.scale_xy), Px(a.min_xy)), Px(a.max_xy)),
           Min2(Max2(Scaled(dims[2], a.scale_xy), Px(a.min_xy)), Px(a.max_xy)),
           Min2(Max2(Scaled(dims[2], a.scale_z), Px(a.min_z)), Px(a.max_z))>>
    ELSE <<Min2(Max2(Scaled(dims[1], a.scale_xy), Px(a.min_xy)), Px(a.max_xy)),
           Min2(Max2(Scaled(dims[2], a.scale_xy), Px(a.min_xy)), Px(a.max_xy)),
           Min2(Max2(Scaled(self_multiply(DimsFrom2(dims)).value.val, a.scale_z),
                     Px(a.min_z)), Px(a.max_z))>>

\* a fallback box that takes its depth from min_xy
MinBox_Cube(a) == <<Px(a.min_xy), Px(a.min_xy), Px(a.min_xy)>>

\* the final fallback return (min_xy, min_xy, min_z)
MinBox(a) == <<Px(a.min_xy), Px(a.min_xy), Px(a.min_z)>>

\* sizing_mode == 'capped'; three or more dims match no branch and reach the
\* final fallback
CappedDims(dims, a) ==
    IF Len(dims) = 1
    THEN IF a.one_dim_orientation = "y"
         THEN <<Px(a.min_xy),
                Max2(Min2(Scaled(dims[1], a.scale_xy), Px(sequence_cap(a))), Px(a.min_xy)),
                Px(a.min_z)>>
         ELSE <<Px(a.min_xy), Px(a.min_xy),
                Max2(Min2(Scaled(dims[1], a.scale_z), Px(channel_cap(a))), Px(a.min_z))>>
    ELSE IF Len(dims) = 2
    THEN <<Max2(Min2(Scaled(dims[1], a.scale_xy), Px(sequence_cap(a))), Px(a.min_xy)),
           Max2(Min2(Scaled(dims[2], a.scale_xy), Px(sequence_cap(a))), Px(a.min_xy)),
           Max2(Min2(IF Len(dims) > 2 THEN Scaled(dims[3], a.scale_z) ELSE Px(a.min_z),
                     Px(channel_cap(a))), Px(a.min_z))>>
    ELSE MinBox(a)

\* sizing_mode == 'balanced'
BalancedDims(dims, a) ==
    IF Len(dims) = 1
    THEN IF a.one_dim_orientation = "y"
         THEN <<Px(a.min_xy),
                IntTrunc(smart_scale(dims[1], a.scale_xy, a.min_xy, sequence_cap(a))),
                Px(a.min_z)>>
         ELSE <<Px(a.min_xy), Px(a.min_xy),
                IntTrunc(smart_scale(dims[1], a.scale_z, a.min_z, channel_cap(a)))>>
    ELSE <<IntTrunc(smart_scale(dims[1], a.scale_xy, a.min_xy, sequence_cap(a))),
           IntTrunc(smart_scale(dims[2], a.scale_xy, a.min_xy, sequence_cap(a))),
           IntTrunc(smart_scale(IF Len(dims) > 2 THEN dims[3] ELSE 1,
                                a.scale_z, a.min_z, channel_cap(a)))>>

\* sizing_mode == 'logarithmic'
LogarithmicDims(dims, a) ==
    IF Len(dims) = 1
    THEN IF a.one_dim_orientation = "y"
         THEN <<Px(a.min_xy),
                IntTrunc(log_scale(dims[1], a.scale_xy, a.min_xy, sequence_cap(a))),
                Px(a.min_z)>>
         ELSE <<Px(a.min_xy), Px(a.min_xy),
                IntTrunc(log_scale(dims[1], a.scale_z, a.min_z, channel_cap(a)))>>
    ELSE <<IntTrunc(log_scale(dims[1], a.scale_xy, a.min_xy, sequence_cap(a))),
           IntTrunc(log_scale(dims[2], a.scale_xy, a.min_xy, sequence_cap(a))),
           IntTrunc(log_scale(IF Len(dims) > 2 THEN dims[3] ELSE 1,
                              a.scale_z, a.min_z, channel_cap(a)))>>

\* sizing_mode == 'relative'
RelativeDims(dims, a) ==
    IF Len(dims) = 1
    THEN IF a.one_dim_orientation = "y"
         THEN <<Px(a.min_xy),
                proportional_scale(dims[1], a.relative_base_size, a.min_xy, sequence_cap(a)),
                Px(a.min_z)>>
         ELSE <<Px(a.min_xy), Px(a.min_xy),
                proportional_scale(dims[1], a.relative_base_size, a.min_z, channel_cap(a))>>
    ELSE IF Len(dims) = 2
    THEN <<proportional_scale(dims[1], a.relative_base_size, a.min_xy, sequence_cap(a)),
           proportional_scale(dims[2], a.relative_base_size, a.min_xy, sequence_cap(a)),
           proportional_scale(dims[2], a.relative_base_size, a.min_z, channel_cap(a))>>
    ELSE <<proportional_scale(dims[1], a.relative_base_size, a.min_xy, sequence_cap(a)),
           proportional_scale(dims[2], a.relative_base_size, a.min_xy, sequence_cap(a)),
           proportional_scale(IF Len(dims) > 2
                              THEN self_multiply(DimsFrom2(dims)).value.val ELSE 1,
                              a.relative_base_size, a.min_z, channel_cap(a))>>

\* a calculate_layer_dimensions that rejects an unknown mode
calculate_layer_dimensions_UnknownRaises(a) ==
    LET dims == ExtractDims(a.shape.items)
    IN  IF dims = <<>> THEN Returned(MinBox(a), {})
        ELSE IF a.sizing_mode = "accurate" THEN Returned(AccurateDims(dims, a), {})
        ELSE IF a.sizing_mode = "capped" THEN Returned(CappedDims(dims, a), {})
        ELSE IF a.sizing_mode = "balanced" THEN Returned(BalancedDims(dims, a), {})
        ELSE IF a.sizing_mode = "logarithmic" THEN Returned(LogarithmicDims(dims, a), {})
        ELSE IF a.sizing_mode = "relative" THEN Returned(RelativeDims(dims, a), {})
        ELSE Raised("ValueError", {})

\* the whole function; an unknown mode warns and recurses with 'accurate'
calculate_layer_dimensions(a) ==
    LET dims == ExtractDims(a.shape.items)
    IN  IF dims = <<>> THEN Returned(MinBox(a), {})
        ELSE IF a.sizing_mode = "accurate" THEN Returned(AccurateDims(dims, a), {})
        ELSE IF a.sizing_mode = "capped" THEN Returned(CappedDims(dims, a), {})
        ELSE IF a.sizing_mode = "balanced" THEN Returned(BalancedDims(dims, a), {})
        ELSE IF a.sizing_mode = "logarithmic" THEN Returned(LogarithmicDims(dims, a), {})
        ELSE IF a.sizing_mode = "relative" THEN Returned(RelativeDims(dims, a), {})
        ELSE Returned(AccurateDims(dims, a), {"unknown sizing mode"})

\* the call x, y, z = calculate_layer_dimensions(...)
CalculateLayerDimensions ==
    /\ dpc = "call"
    /\ dim_out' = calculate_layer_dimensions(dim_args)
    /\ dpc' = "done"
    /\ UNCHANGED dim_args
    /\ UNCHANGED <<graph_vars, shape_vars, cmp_vars, mul_vars,
                   layout_vars, wheel_vars, draw_vars, view_vars>>

\* the next call of a caller that sizes several layers, or one layer under
\* several settings, one call after the other
CalculateNextDimensions ==
    /\ cpc = "call"
    /\ Len(cmp_out) < Len(cmp_args)
    /\ cmp_out' = Append(cmp_out, calculate_layer_dimensions(cmp_args[Len(cmp_out) + 1]))
    /\ cpc' = IF Len(cmp_out) + 1 = Len(cmp_args) THEN "done" ELSE "call"
    /\ UNCHANGED cmp_args
    /\ UNCHANGED <<graph_vars, shape_vars, dim_vars, mul_vars,
                   layout_vars, wheel_vars, draw_vars, view_vars>>

(***************************************************************************)
(* layered_view (layered.py): the layout loop, the canvas and the          *)
(* centering.  Coordinates are held in six-hundredths of a pixel, so that  *)
(* x / 3 and de / 2 are exact.                                             *)
(***************************************************************************)
\* a size in hundredths of a pixel, as a coordinate
Fine(v) == v * 6

\* a whole number of pixels, as a coordinate
FinePx(n) == n * 600

\* int(ceil(v)), in pixels
CeilPx(v) == -((-v) \div 600)

\* type(layer) in type_ignore or index in index_ignore
IsIgnored(layer, idx, o) == layer.type \in o.type_ignore \/ idx \in o.index_ignore

\* the arguments layered_view passes to calculate_layer_dimensions
DimensionArgs(shape, o) ==
    [shape |-> shape, scale_z |-> o.scale_z, scale_xy |-> o.scale_xy,
     max_z |-> o.max_z, max_xy |-> o.max_xy, min_z |-> o.min_z, min_xy |-> o.min_xy,
     one_dim_orientation |-> o.one_dim_orientation, sizing_mode |-> o.sizing_mode,
     dimension_caps |-> o.dimension_caps,
     relative_base_size |-> IF o.relative_scaling THEN 1 ELSE 0]

\* box.de: x / 3 if draw_volume and index not in index_2D, else 0
BoxDepthOffset(x, idx, o) ==
    IF o.draw_volume /\ idx \notin o.index_2D THEN Fine(x) \div 3 ELSE 0

\* the box of a layer of computed size (x, y, z) at running coordinate cz
NewBox(idx, x, y, z, de, cz) ==
    [layer |-> idx, de |-> de,
     x1 |-> cz - de \div 2, y1 |-> de,
     x2 |-> (cz - de \div 2) + Fine(z), y2 |-> de + Fine(y)]

\* a running coordinate that forgets the inter-layer spacing
AdvanceZ_NoSpacing(cz, z, spacing) == cz + Fine(z)

\* current_z += z + spacing
AdvanceZ(cz, z, spacing) == cz + Fine(z) + FinePx(spacing)

\* a canvas width without the scene offset
CanvasWidth_NoOffset(right, off, padding) == right + FinePx(padding)

\* img_width = max_right + x_off + padding
CanvasWidth(right, off, padding) == right + off + FinePx(padding)

\* one iteration of `for index, layer in enumerate(model.layers)`
LayoutLayer ==
    /\ lpc = "layout"
    /\ index < Len(model_layers)
    /\ LET layer == model_layers[index + 1]
           o     == lv_opts
           prim  == extract_primary_shape(layer.output_shape)
       IN  IF IsIgnored(layer, index, o)
           THEN /\ UNCHANGED <<boxes, layer_y, current_z, x_off, img_height, max_right>>
                /\ lpc' = IF index + 1 = Len(model_layers) THEN "image" ELSE "layout"
           ELSE IF layer.type = "SpacingDummyLayer"
           THEN /\ current_z' = current_z + FinePx(layer.spacing)
                /\ UNCHANGED <<boxes, layer_y, x_off, img_height, max_right>>
                /\ lpc' = IF index + 1 = Len(model_layers) THEN "image" ELSE "layout"
           ELSE IF prim.status = "raised"
           THEN /\ UNCHANGED <<boxes, layer_y, current_z, x_off, img_height, max_right>>
                /\ lpc' = "failed"
           ELSE LET d   == calculate_layer_dimensions(DimensionArgs(prim.value, o)).value
                    de  == BoxDepthOffset(d[1], index, o)
                    box == NewBox(index, d[1], d[2], d[3], de, current_z)
                    hh  == box.y2 - (box.y1 - box.de)
                IN  /\ boxes' = Append(boxes, box)
                    /\ layer_y' = Append(layer_y, hh)
                    /\ x_off' = IF x_off = -600 THEN de \div 2 ELSE x_off
                    /\ img_height' = IF hh > img_height THEN hh ELSE img_height
                    /\ max_right' = IF box.x2 + box.de > max_right
                                    THEN box.x2 + box.de ELSE max_right
                    /\ current_z' = AdvanceZ(current_z, d[3], o.spacing)
                    /\ lpc' = IF index + 1 = Len(model_layers) THEN "image" ELSE "layout"
    /\ index' = index + 1
    /\ UNCHANGED <<model_layers, lv_opts, img_width, img>>
    /\ UNCHANGED <<graph_vars, shape_vars, dim_vars, cmp_vars,
                   mul_vars, wheel_vars, draw_vars, view_vars>>

\* node.y1 += y_off; node.y2 += y_off; node.x1 += x_off; node.x2 += x_off
Centered(box, hgt, height, off) ==
    LET y_off == (FinePx(height) - hgt) \div 2
    IN  [box EXCEPT !.x1 = @ + off, !.x2 = @ + off, !.y1 = @ + y_off, !.y2 = @ + y_off]

\* int(ceil(v)) as the float arithmetic can produce it.  A third of a pixel
\* has no exact float, so once a depth offset that is not a whole number of
\* pixels has entered the sums, a value that is a whole number of pixels in
\* exact arithmetic may come out one ulp above it and round up to the next
\* pixel.
CeilOutcomes(v) ==
    IF v % 600 = 0 /\ \E i \in 1..Len(boxes) : boxes[i].de % 600 # 0
    THEN {v \div 600, v \div 600 + 1}
    ELSE {CeilPx(v)}

\* after the loop: the canvas is sized and created and the boxes are moved
\* (no text_callable)
GenerateImage ==
    /\ lpc = "image"
    /\ img_width' = CanvasWidth(max_right, x_off, lv_opts.padding)
    /\ \E w \in CeilOutcomes(img_width'), h \in CeilOutcomes(img_height) :
          /\ img' = [width |-> w, height |-> h]
          /\ boxes' = [i \in 1..Len(boxes) |-> Centered(boxes[i], layer_y[i], h, x_off)]
    /\ lpc' = "placed"
    /\ UNCHANGED <<model_layers, lv_opts, index, layer_y, current_z, x_off,
                   img_height, max_right>>
    /\ UNCHANGED <<graph_vars, shape_vars, dim_vars, cmp_vars,
                   mul_vars, wheel_vars, draw_vars, view_vars>>

(***************************************************************************)
(* layered_view: drawing the boxes and the funnel between them             *)
(***************************************************************************)
\* the parameters of Box.draw(self, draw) besides self
BoxDrawParameters == {"draw"}

\* box.draw(draw, **keywords): Python binds the arguments before the body
\* runs and raises TypeError for a keyword the method does not declare
BoxDrawCall(keywords) ==
    IF keywords \subseteq BoxDrawParameters THEN "drawn" ELSE "TypeError"

\* one draw.line([x1, y1, x2, y2], pen) of the funnel, from last_box (at
\* position i of boxes) to box (at position j)
FunnelLine(i, j, part, xy) == [src |-> i, dst |-> j, part |-> part, xy |-> xy]

\* box.x1 = box.x1 + offset; box.x2 = box.x2 + offset, with offset = box.de
ShiftedReversed(box) == [box EXCEPT !.x1 = @ + box.de, !.x2 = @ + box.de]

\* the two connections of the first reversed loop
BackLines(i, j) ==
    LET lb == boxes[i]
        b  == boxes[j]
    IN  <<FunnelLine(i, j, "top back",
                     <<lb.x2 - lb.de, lb.y1 - lb.de, b.x1 - b.de, b.y1 - b.de>>),
          FunnelLine(i, j, "bottom back",
                     <<lb.x2 - lb.de, lb.y2 - lb.de, b.x1 - b.de, b.y2 - b.de>>)>>

\* the two connections of the second reversed loop
FrontLines(i, j) ==
    LET lb == boxes[i]
        b  == boxes[j]
    IN  <<FunnelLine(i, j, "top front", <<lb.x1, lb.y1, b.x2, b.y1>>),
          FunnelLine(i, j, "bottom front", <<lb.x1, lb.y2, b.x2, b.y2>>)>>

\* the four connections of the loop that draws front to back
ForwardLines(i, j) ==
    LET lb == boxes[i]
        b  == boxes[j]
    IN  <<FunnelLine(i, j, "top back",
                     <<lb.x2 + lb.de, lb.y1 - lb.de, b.x1 + b.de, b.y1 - b.de>>),
          FunnelLine(i, j, "bottom back",
                     <<lb.x2 + lb.de, lb.y2 - lb.de, b.x1 + b.de, b.y2 - b.de>>),
          FunnelLine(i, j, "bottom front", <<lb.x2, lb.y2, b.x1, b.y2>>),
          FunnelLine(i, j, "top front", <<lb.x2, lb.y1, b.x1, b.y1>>)>>

\* `if last_box is not None and draw_funnel`
DrawsFunnel == last_box # 0 /\ lv_opts.draw_funnel

\* draw = aggdraw.Draw(img), the correction of the reversed boxes, and
\* last_box = None
BeginDraw ==
    /\ lpc = "placed"
    /\ boxes' = IF lv_opts.draw_reversed
                THEN [i \in 1..Len(boxes) |-> ShiftedReversed(boxes[i])]
                ELSE boxes
    /\ last_box' = 0
    /\ di' = 1
    /\ lpc' = IF Len(boxes) = 0 THEN "flush"
              ELSE IF lv_opts.draw_reversed THEN "back" ELSE "forward"
    /\ UNCHANGED <<lines, drawn, draw_error>>
    /\ UNCHANGED <<model_layers, lv_opts, index, layer_y, current_z, x_off,
                   img_height, max_right, img_width, img>>
    /\ UNCHANGED <<graph_vars, shape_vars, dim_vars, cmp_vars,
                   mul_vars, wheel_vars, view_vars>>

\* one iteration of the first loop of `if draw_reversed`; after the last
\* one, last_box = None and the second loop starts from the last box
DrawBack ==
    /\ lpc = "back"
    /\ lines' = IF DrawsFunnel THEN lines \o BackLines(last_box, di) ELSE lines
    /\ IF di = Len(boxes)
       THEN /\ last_box' = 0
            /\ di' = Len(boxes)
            /\ lpc' = "front"
       ELSE /\ last_box' = di
            /\ di' = di + 1
            /\ lpc' = "back"
    /\ UNCHANGED <<drawn, draw_error>>
    /\ UNCHANGED <<model_layers, lv_opts, index, boxes, layer_y, current_z, x_off,
                   img_height, max_right, img_width, img>>
    /\ UNCHANGED <<graph_vars, shape_vars, dim_vars, cmp_vars,
                   mul_vars, wheel_vars, view_vars>>

\* one iteration of `for box in reversed(boxes)`, ending with
\* box.draw(draw, draw_reversed=True)
DrawFront ==
    /\ lpc = "front"
    /\ lines' = IF DrawsFunnel THEN lines \o FrontLines(last_box, di) ELSE lines
    /\ IF BoxDrawCall({"draw_reversed"}) = "TypeError"
       THEN /\ draw_error' = "TypeError"
            /\ lpc' = "failed"
            /\ UNCHANGED <<drawn, last_box, di>>
       ELSE /\ drawn' = Append(drawn, di)
            /\ last_box' = di
            /\ di' = di - 1
            /\ lpc' = IF di = 1 THEN "flush" ELSE "front"
            /\ UNCHANGED draw_error
    /\ UNCHANGED <<model_layers, lv_opts, index, boxes, layer_y, current_z, x_off,
                   img_height, max_right, img_width, img>>
    /\ UNCHANGED <<graph_vars, shape_vars, dim_vars, cmp_vars,
                   mul_vars, wheel_vars, view_vars>>

\* one iteration of `for box in boxes` of the else branch, ending with
\* box.draw(draw, draw_reversed=False)
DrawForward ==
    /\ lpc = "forward"
    /\ lines' = IF DrawsFunnel THEN lines \o ForwardLines(last_box, di) ELSE lines
    /\ IF BoxDrawCall({"draw_reversed"}) = "TypeError"
       THEN /\ draw_error' = "TypeError"
            /\ lpc' = "failed"
            /\ UNCHANGED <<drawn, last_box, di>>
       ELSE /\ drawn' = Append(drawn, di)
            /\ last_box' = di
            /\ di' = di + 1
            /\ lpc' = IF di = Len(boxes) THEN "flush" ELSE "forward"
            /\ UNCHANGED draw_error
    /\ UNCHANGED <<model_layers, lv_opts, index, boxes, layer_y, current_z, x_off,
                   img_height, max_right, img_width, img>>
    /\ UNCHANGED <<graph_vars, shape_vars, dim_vars, cmp_vars,
                   mul_vars, wheel_vars, view_vars>>

\* draw.flush() and the return of the image (no text_callable, no legend)
Flush ==
    /\ lpc = "flush"
    /\ lpc' = "done"
    /\ UNCHANGED <<lines, drawn, last_box, di, draw_error>>
    /\ UNCHANGED <<model_layers, lv_opts, index, boxes, layer_y, current_z, x_off,
                   img_height, max_right, img_width, img>>
    /\ UNCHANGED <<graph_vars, shape_vars, dim_vars, cmp_vars,
                   mul_vars, wheel_vars, view_vars>>

(***************************************************************************)
(* ColorWheel (utils.py)                                                   *)
(***************************************************************************)
\* the colours of ColorWheel() without argument
DefaultColors == <<"#ffd166", "#ef476f", "#06d6a0", "#118ab2", "#073b4c">>

\* what a get_color call produced: the colour returned, or the exception
ColorReturned(c) == [status |-> "returned", color |-> c]
ColorRaised(e) == [status |-> "raised", color |-> e]

\* self._cache[class_type] = colour
CacheSet(c, class_type, colour) ==
    [t \in (DOMAIN c) \cup {class_type} |-> IF t = class_type THEN colour ELSE c[t]]

\* get_color without the test on the cache: the index is taken anew on
\* every call
get_color_Recompute(c, cols, class_type) ==
    IF Len(cols) = 0
    THEN [cache |-> c, outcome |-> ColorRaised("ZeroDivisionError")]
    ELSE LET idx == Cardinality(DOMAIN c) % Len(cols)
         IN  [cache   |-> CacheSet(c, class_type, cols[idx + 1]),
              outcome |-> ColorReturned(cols[idx + 1])]

\* ColorWheel.get_color: the cache after the call and the outcome
get_color(c, cols, class_type) ==
    IF class_type \notin DOMAIN c
    THEN IF Len(cols) = 0
         THEN [cache |-> c, outcome |-> ColorRaised("ZeroDivisionError")]
         ELSE LET idx == Cardinality(DOMAIN c) % Len(cols)
              IN  [cache   |-> CacheSet(c, class_type, cols[idx + 1]),
                   outcome |-> ColorReturned(cols[idx + 1])]
    ELSE [cache |-> c, outcome |-> ColorReturned(c[class_type])]

(***************************************************************************)
(* graph_view (graph.py); node coordinates are in half pixels              *)
(***************************************************************************)
Half(v) == 2 * v

\* a layer with neither a units nor a filters attribute, as _DummyLayer is
NoAttr == [kind |-> "none", n |-> 0]

\* the attribute record of a layer; the output dummies are not model layers
AttrOf(l) == IF l \in DOMAIN layer_attrs THEN layer_attrs[l] ELSE NoAttr

\* is_box after `if show_neurons: if hasattr(layer, 'units') ... elif
\* hasattr(layer, 'filters') ...`
IsBox(attr, o) == ~(o.show_neurons /\ attr.kind \in {"units", "filters"})

\* units after the same test
NeuronUnits(attr, o) == IF IsBox(attr, o) THEN 1 ELSE attr.n

\* the class of the i-th node (0-based) of a layer, with the placeholder
\* as the last node
NodeKind_PlaceholderLast(is_box, i, units, o) ==
    IF is_box THEN "Box"
    ELSE IF i # o.ellipsize_after - 1 THEN "Circle"
    ELSE "Ellipses"

\* the class of the i-th node (0-based) of a layer
NodeKind(is_box, i, units, o) ==
    IF is_box THEN "Box"
    ELSE IF i # o.ellipsize_after - 2 THEN "Circle"
    ELSE "Ellipses"

\* the body of `for i in range(n)` for every i: the nodes of one layer, the
\* first at current_y = y
LayerNodes(l, x, y, o) ==
    LET is_box == IsBox(AttrOf(l), o)
        units  == NeuronUnits(AttrOf(l), o)
        n      == Min2(units, o.ellipsize_after)
        scale  == IF is_box THEN 3 ELSE 1
        step   == o.node_size * scale + o.node_spacing
    IN  [i \in 1..n |->
            [kind  |-> NodeKind(is_box, i - 1, units, o),
             layer |-> l,
             x1    |-> Half(x),
             y1    |-> Half(y + (i - 1) * step),
             x2    |-> Half(x + o.node_size),
             y2    |-> Half(y + (i - 1) * step + o.node_size * scale)]]

\* current_y after the nodes of one layer and `current_y += 2 * node_size`
AfterLayer(l, y, o) ==
    LET is_box == IsBox(AttrOf(l), o)
        n      == Max2(Min2(NeuronUnits(AttrOf(l), o), o.ellipsize_after), 0)
        scale  == IF is_box THEN 3 ELSE 1
    IN  y + n * (o.node_size * scale + o.node_spacing) + 2 * o.node_size

\* id_to_node_list_map[id(layer)] = layer_nodes
NodeListSet(map, l, layer_nodes) ==
    [k \in (DOMAIN map) \cup {l} |-> IF k = l THEN layer_nodes ELSE map[k]]

\* `for layer in layer_list`, from position k on
RECURSIVE ColumnFrom(_, _, _, _, _, _, _)
ColumnFrom(layer_list, k, x, y, o, nodes, map) ==
    IF k > Len(layer_list) THEN [nodes |-> nodes, map |-> map, y |-> y]
    ELSE LET layer_nodes == LayerNodes(layer_list[k], x, y, o)
         IN  ColumnFrom(layer_list, k + 1, x, AfterLayer(layer_list[k], y, o), o,
                        nodes \o layer_nodes,
                        NodeListSet(map, layer_list[k], layer_nodes))

\* img_width = len(layers) * node_size + (len(layers) - 1) * layer_spacing
\*             + 2 * padding
GraphImageWidth(columns, o) ==
    columns * o.node_size + (columns - 1) * o.layer_spacing + 2 * o.padding

\* max(*layer_y)
RECURSIVE MaxOf(_)
MaxOf(xs) == IF Len(xs) = 1 THEN xs[1] ELSE Max2(xs[1], MaxOf(Tail(xs)))

\* node.y1 += y_off; node.y2 += y_off, with y_off = (img.height - layer_y[i]) / 2
CenteredNode(node, height, ly) ==
    [node EXCEPT !.y1 = @ + (height - ly), !.y2 = @ + (height - ly)]

\* _draw_connector(draw, start_node, end_node, ...), from node p of the start
\* layer's list to node q of the end layer's list
Connector(start_node, p, end_node, q) ==
    [src |-> <<start_node.layer, p>>,
     dst |-> <<end_node.layer, q>>,
     xy  |-> <<start_node.x2, start_node.y1 + (start_node.y2 - start_node.y1) \div 2,
               end_node.x1, end_node.y1 + (end_node.y2 - end_node.y1) \div 2>>]

\* the two nested loops over the nodes of a start and an end layer
PairConnectors(start_list, end_list) ==
    LET pairs == {<<p, q>> \in (1..Len(start_list)) \X (1..Len(end_list)) :
                    /\ start_list[p].kind # "Ellipses"
                    /\ end_list[q].kind # "Ellipses"}
        RECURSIVE InOrder(_, _)
        InOrder(p, q) ==
            IF p > Len(start_list) THEN <<>>
            ELSE IF q > Len(end_list) THEN InOrder(p + 1, 1)
            ELSE (IF <<p, q>> \in pairs
                  THEN <<Connector(start_list[p], p, end_list[q], q)>> ELSE <<>>)
                 \o InOrder(p, q + 1)
    IN  InOrder(1, 1)

\* zip(*np.where(adj_matrix > 0)): the positive cells in row-major order
RECURSIVE PositiveCells(_, _, _, _)
PositiveCells(adj, m, r, c) ==
    IF r >= m THEN <<>>
    ELSE IF c >= m THEN PositiveCells(adj, m, r + 1, 0)
    ELSE (IF adj[<<r, c>>] > 0 THEN <<<<r, c>>>> ELSE <<>>)
         \o PositiveCells(adj, m, r, c + 1)

\* next(get_keys_by_value(id_to_num_mapping, idx)): the mapping is one to one
KeyOf(map, idx) == CHOOSE key \in DOMAIN map : map[key] = idx

\* `for start_idx, end_idx in zip(...)`, from cell k on: the connectors
\* drawn, and KeyError when a layer of a cell has no node list
RECURSIVE ConnectorsFrom(_, _, _, _, _)
ConnectorsFrom(cells, k, map, node_map, drawn_so_far) ==
    IF k > Len(cells) THEN [connectors |-> drawn_so_far, error |-> "none"]
    ELSE LET start_id == KeyOf(map, cells[k][1])
             end_id   == KeyOf(map, cells[k][2])
         IN  IF start_id \notin DOMAIN node_map \/ end_id \notin DOMAIN node_map
             THEN [connectors |-> drawn_so_far, error |-> "KeyError"]
             ELSE ConnectorsFrom(cells, k + 1, map, node_map,
                                 drawn_so_far
                                 \o PairConnectors(node_map[start_id], node_map[end_id]))

\* np.pad(adj_matrix, ((0, num_outs), (0, num_outs))): num_outs zero rows and
\* columns more
Padded(adj, n, num_outs) ==
    [c \in (0..(n + num_outs - 1)) \X (0..(n + num_outs - 1)) |->
        IF c[1] < n /\ c[2] < n THEN adj[c] ELSE 0]

\* the ids of the dummy output layers
DummyOutputs(n, num_outs) == [i \in 1..num_outs |-> n + i]

\* `for dummy_output in dummy_outputs: id_to_num_mapping[id(dummy_output)] =
\* len(id_to_num_mapping.keys())`, from dummy k on
RECURSIVE MapDummies(_, _, _)
MapDummies(map, dummies, k) ==
    IF k > Len(dummies) THEN map
    ELSE MapDummies(AssignIndex(map, dummies[k]), dummies, k + 1)

\* `for i, output_layer in enumerate(find_output_layers(model))`, from
\* output k on
RECURSIVE ConnectOutputs(_, _, _, _, _)
ConnectOutputs(adj, map, output_layers, dummies, k) ==
    IF k > Len(output_layers) THEN adj
    ELSE ConnectOutputs(AddEdge(adj, map[output_layers[k]], map[dummies[k]]),
                        map, output_layers, dummies, k + 1)

\* lines 60-65: the number of input and output nodes, by tensor or by scalar
CountInOut ==
    /\ vpc = "inout"
    /\ IF gv_opts.inout_as_tensor
       THEN /\ inputs' = PyInt(model_io.num_inputs)
            /\ outputs' = PyInt(Len(model_io.output_layers))
            /\ vpc' = "graph"
            /\ gpc' = "adj"
       ELSE LET r_in  == self_multiply(model_io.input_shape)
                r_out == self_multiply(model_io.output_shape)
            IN  IF r_in.status = "raised" \/ r_out.status = "raised"
                THEN /\ UNCHANGED <<inputs, outputs, gpc>>
                     /\ vpc' = "failed"
                ELSE /\ inputs' = r_in.value
                     /\ outputs' = r_out.value
                     /\ vpc' = "graph"
                     /\ gpc' = "adj"
    /\ UNCHANGED <<layers, inbound, id_to_num_mapping, adj_matrix, li, hierarchy,
                   prev_layers, finished>>
    /\ UNCHANGED <<gv_opts, layer_attrs, model_io, current_x, ci, id_to_node_list_map,
                   gv_layers, gv_layer_y, gv_img, connectors, first_img>>
    /\ UNCHANGED <<shape_vars, dim_vars, cmp_vars, mul_vars, layout_vars,
                   wheel_vars, draw_vars>>

\* lines 90-102, after model_to_hierarchy_lists has returned: the dummy
\* output layers become the last level, get their indices and their edges
AddOutputs ==
    /\ vpc = "graph"
    /\ gpc = "done"
    /\ LET n        == Len(layers)
           num_outs == Len(model_io.output_layers)
           dummies  == DummyOutputs(n, num_outs)
           map      == MapDummies(id_to_num_mapping, dummies, 1)
       IN  /\ hierarchy' = Append(hierarchy, dummies)
           /\ id_to_num_mapping' = map
           /\ adj_matrix' = ConnectOutputs(Padded(adj_matrix, n, num_outs), map,
                                           model_io.output_layers, dummies, 1)
    /\ current_x' = gv_opts.padding
    /\ ci' = 1
    /\ vpc' = "columns"
    /\ UNCHANGED <<layers, inbound, li, prev_layers, finished, gpc>>
    /\ UNCHANGED <<gv_opts, layer_attrs, model_io, inputs, outputs, id_to_node_list_map,
                   gv_layers, gv_layer_y, gv_img, connectors, first_img>>
    /\ UNCHANGED <<shape_vars, dim_vars, cmp_vars, mul_vars, layout_vars,
                   wheel_vars, draw_vars>>

\* one iteration of `for index, layer_list in enumerate(model_layers)`
CreateColumn ==
    /\ vpc = "columns"
    /\ \E c \in {ColumnFrom(hierarchy[ci], 1, current_x, 0, gv_opts, <<>>,
                            id_to_node_list_map)} :
          /\ gv_layers' = Append(gv_layers, c.nodes)
          /\ gv_layer_y' = Append(gv_layer_y,
                                  c.y - gv_opts.node_spacing - 2 * gv_opts.node_size)
          /\ id_to_node_list_map' = c.map
    /\ current_x' = current_x + gv_opts.node_size + gv_opts.layer_spacing
    /\ ci' = ci + 1
    /\ vpc' = IF ci = Len(hierarchy) THEN "image" ELSE "columns"
    /\ UNCHANGED <<gv_opts, layer_attrs, model_io, inputs, outputs, gv_img,
                   connectors, first_img>>
    /\ UNCHANGED <<graph_vars, shape_vars, dim_vars, cmp_vars, mul_vars, layout_vars,
                   wheel_vars, draw_vars>>

\* lines 170-184: the canvas and the vertical centering of the columns.  The
\* node lists of id_to_node_list_map hold the same node objects as the
\* columns, so they move with them.
MakeImage ==
    /\ vpc = "image"
    /\ LET width  == GraphImageWidth(Len(gv_layers), gv_opts)
           height == MaxOf(gv_layer_y) + 2 * gv_opts.padding
           ColumnOf(l) == CHOOSE i \in 1..Len(gv_layers) :
                              /\ \E k \in 1..Len(gv_layers[i]) :
                                    gv_layers[i][k] \in Range(id_to_node_list_map[l])
       IN  /\ gv_img' = [width |-> width, height |-> height]
           /\ gv_layers' = [i \in 1..Len(gv_layers) |->
                              [k \in 1..Len(gv_layers[i]) |->
                                  CenteredNode(gv_layers[i][k], height, gv_layer_y[i])]]
           /\ id_to_node_list_map' =
                 [l \in DOMAIN id_to_node_list_map |->
                     IF id_to_node_list_map[l] = <<>> THEN <<>>
                     ELSE [k \in 1..Len(id_to_node_list_map[l]) |->
                             CenteredNode(id_to_node_list_map[l][k], height,
                                          gv_layer_y[ColumnOf(l)])]]
    /\ vpc' = "connect"
    /\ UNCHANGED <<gv_opts, layer_attrs, model_io, inputs, outputs, current_x, ci,
                   gv_layer_y, connectors, first_img>>
    /\ UNCHANGED <<graph_vars, shape_vars, dim_vars, cmp_vars, mul_vars, layout_vars,
                   wheel_vars, draw_vars>>

\* lines 186-197: the connectors of every positive cell of the matrix
DrawConnectors ==
    /\ vpc = "connect"
    /\ \E r \in {ConnectorsFrom(PositiveCells(adj_matrix,
                                              Len(layers) + Len(model_io.output_layers),
                                              0, 0),
                                1, id_to_num_mapping, id_to_node_list_map, <<>>)} :
          /\ connectors' = r.connectors
          /\ vpc' = IF r.error = "none" THEN "nodes" ELSE "failed"
    /\ UNCHANGED <<gv_opts, layer_attrs, model_io, inputs, outputs, current_x, ci,
                   id_to_node_list_map, gv_layers, gv_layer_y, gv_img, first_img>>
    /\ UNCHANGED <<graph_vars, shape_vars, dim_vars, cmp_vars, mul_vars, layout_vars,
                   wheel_vars, draw_vars>>

\* lines 199-226: every node is drawn, the canvas flushed and returned
DrawNodes ==
    /\ vpc = "nodes"
    /\ vpc' = "done"
    /\ UNCHANGED <<gv_opts, layer_attrs, model_io, inputs, outputs, current_x, ci,
                   id_to_node_list_map, gv_layers, gv_layer_y, gv_img, connectors,
                   first_img>>
    /\ UNCHANGED <<graph_vars, shape_vars, dim_vars, cmp_vars, mul_vars, layout_vars,
                   wheel_vars, draw_vars>>

\* the caller keeps the image and calls graph_view on the same model with
\* the other value of inout_as_tensor
SecondCall ==
    /\ vpc = "done"
    /\ first_img = <<>>
    /\ first_img' = gv_img
    /\ gv_opts' = [gv_opts EXCEPT !.inout_as_tensor = ~@]
    /\ inputs' = PyNone
    /\ outputs' = PyNone
    /\ current_x' = 0
    /\ ci' = 0
    /\ id_to_node_list_map' = <<>>
    /\ gv_layers' = <<>>
    /\ gv_layer_y' = <<>>
    /\ gv_img' = <<>>
    /\ connectors' = <<>>
    /\ vpc' = "inout"
    /\ id_to_num_mapping' = <<>>
    /\ adj_matrix' = ZeroMatrix(Len(layers))
    /\ li' = 1
    /\ hierarchy' = <<>>
    /\ prev_layers' = {}
    /\ finished' = FALSE
    /\ gpc' = "wait"
    /\ UNCHANGED <<layers, inbound, layer_attrs, model_io>>
    /\ UNCHANGED <<shape_vars, dim_vars, cmp_vars, mul_vars, layout_vars,
                   wheel_vars, draw_vars>>

(***************************************************************************)
(* Idle values of the parts a specification does not run                   *)
(***************************************************************************)
GraphIdle ==
    /\ layers = <<>>
    /\ inbound = <<>>
    /\ id_to_num_mapping = <<>>
    /\ adj_matrix = <<>>
    /\ li = 0
    /\ hierarchy = <<>>
    /\ prev_layers = {}
    /\ finished = FALSE
    /\ gpc = "idle"

ShapeIdle ==
    /\ raw_shape = PyNone
    /\ shape_out = NoResult
    /\ spc = "idle"

DimIdle ==
    /\ dim_args = <<>>
    /\ dim_out = NoResult
    /\ dpc = "idle"

CmpIdle ==
    /\ cmp_args = <<>>
    /\ cmp_out = <<>>
    /\ cpc = "idle"

MulIdle ==
    /\ mul_arg = <<>>
    /\ mul_out = NoResult
    /\ mpc = "idle"

LayoutIdle ==
    /\ model_layers = <<>>
    /\ lv_opts = <<>>
    /\ index = 0
    /\ boxes = <<>>
    /\ layer_y = <<>>
    /\ current_z = 0
    /\ x_off = 0
    /\ img_height = 0
    /\ max_right = 0
    /\ img_width = 0
    /\ img = <<>>
    /\ lpc = "idle"

DrawIdle ==
    /\ lines = <<>>
    /\ drawn = <<>>
    /\ last_box = 0
    /\ di = 0
    /\ draw_error = "none"

WheelIdle ==
    /\ colors = <<>>
    /\ cache = <<>>
    /\ calls = <<>>

ViewIdle ==
    /\ gv_opts = <<>>
    /\ layer_attrs = <<>>
    /\ model_io = <<>>
    /\ inputs = PyNone
    /\ outputs = PyNone
    /\ current_x = 0
    /\ ci = 0
    /\ id_to_node_list_map = <<>>
    /\ gv_layers = <<>>
    /\ gv_layer_y = <<>>
    /\ gv_img = <<>>
    /\ connectors = <<>>
    /\ first_img = <<>>
    /\ vpc = "idle"

(***************************************************************************)
(* The layer graph pipeline: graph_view's calls of model_to_adj_matrix and  *)
(* model_to_hierarchy_lists on a model of up to MaxLayers layers            *)
(***************************************************************************)
\* the inbound record lists of the first k of n layers, holding at most e
\* records in all
RECURSIVE InboundRecords(_, _, _)
InboundRecords(n, k, e) ==
    IF k = 0 THEN {<<>>}
    ELSE UNION {{Append(rest, recs) : rest \in InboundRecords(n, k - 1, e - Len(recs))} :
                recs \in SeqsUpTo(1..n, e)}

GraphInit ==
    /\ \E n \in 1..MaxLayers :
          /\ layers = [k \in 1..n |-> k]
          /\ inbound \in InboundRecords(n, n, MaxEdges)
          /\ adj_matrix = ZeroMatrix(n)
    /\ id_to_num_mapping = <<>>
    /\ li = 1
    /\ hierarchy = <<>>
    /\ prev_layers = {}
    /\ finished = FALSE
    /\ gpc = "adj"
    /\ ShapeIdle
    /\ DimIdle
    /\ CmpIdle
    /\ MulIdle
    /\ LayoutIdle
    /\ WheelIdle
    /\ DrawIdle
    /\ ViewIdle

GraphNext == AdjLayer \/ FindInputs \/ HierarchyPass

GraphSpec == GraphInit /\ [][GraphNext]_vars

\* the same pipeline as a running program: the interpreter executes the next
\* statement of the one sequential thread whenever there is one
GraphLiveSpec == GraphInit /\ [][GraphNext]_vars /\ WF_vars(GraphNext)

(***************************************************************************)
(* extract_primary_shape on every raw shape of nesting depth at most two:   *)
(* None, a scalar, a str, and tuples and lists of scalars, tuples and lists *)
(***************************************************************************)
ShapeScalars == {PyNone, PyInt(8)}

ShapeLevel1 ==
    {PyTuple(xs) : xs \in SeqsUpTo(ShapeScalars, MaxShapeLen)}
    \cup {PyList(xs) : xs \in SeqsUpTo(ShapeScalars, MaxShapeLen)}

ShapeLevel2 ==
    {PyTuple(xs) : xs \in SeqsUpTo(ShapeScalars \cup ShapeLevel1, MaxOutputs)}
    \cup {PyList(xs) : xs \in SeqsUpTo(ShapeScalars \cup ShapeLevel1, MaxOutputs)}

RawShapes == {PyNone, PyInt(123), PyStr} \cup ShapeLevel1 \cup ShapeLevel2

ShapeInit ==
    /\ raw_shape \in RawShapes
    /\ shape_out = NoResult
    /\ spc = "call"
    /\ GraphIdle
    /\ DimIdle
    /\ CmpIdle
    /\ MulIdle
    /\ LayoutIdle
    /\ WheelIdle
    /\ DrawIdle
    /\ ViewIdle

ShapeNext == ExtractPrimaryShape

ShapeSpec == ShapeInit /\ [][ShapeNext]_vars

(***************************************************************************)
(* calculate_layer_dimensions on shapes (None, d1, ..., dk), k <= MaxRank   *)
(***************************************************************************)
DimVals == {1, 5, 100}
DimEntries == {PyNone} \cup {PyInt(d) : d \in DimVals}
DimShapes == {PyTuple(<<PyNone>> \o xs) : xs \in SeqsUpTo(DimEntries, MaxRank)}

\* scale factors in tenths: 0.5, 1.0 and 2.0
ScaleZs == {5, 10}
ScaleXYs == {10, 20}

\* pixel bounds; the second choice has min > max on both axes
BoundChoices ==
    {[min_xy |-> 2, max_xy |-> 10, min_z |-> 1, max_z |-> 50],
     [min_xy |-> 12, max_xy |-> 10, min_z |-> 60, max_z |-> 50]}

Orientations == {"x", "y", "z", "w"}
SizingModes == {"accurate", "capped", "balanced", "logarithmic", "relative", "fancy"}
KnownModes == {"accurate", "capped", "balanced", "logarithmic", "relative"}

\* dimension_caps: None, {'sequence': 4}, {'sequence': 4, 'channels': 20}
CapChoices ==
    {[k \in {} |-> 0],
     [k \in {"sequence"} |-> 4],
     [k \in {"sequence", "channels"} |-> IF k = "sequence" THEN 4 ELSE 20]}

BaseSizes == {2}

DimInit ==
    /\ \E sh \in DimShapes, sz \in ScaleZs, sxy \in ScaleXYs, b \in BoundChoices,
          o \in Orientations, m \in SizingModes, c \in CapChoices, rb \in BaseSizes :
          dim_args = [shape |-> sh, scale_z |-> sz, scale_xy |-> sxy,
                      max_z |-> b.max_z, max_xy |-> b.max_xy,
                      min_z |-> b.min_z, min_xy |-> b.min_xy,
                      one_dim_orientation |-> o, sizing_mode |-> m,
                      dimension_caps |-> c, relative_base_size |-> rb]
    /\ dim_out = NoResult
    /\ dpc = "call"
    /\ GraphIdle
    /\ ShapeIdle
    /\ CmpIdle
    /\ MulIdle
    /\ LayoutIdle
    /\ WheelIdle
    /\ DrawIdle
    /\ ViewIdle

DimNext == CalculateLayerDimensions

DimSpec == DimInit /\ [][DimNext]_vars

(***************************************************************************)
(* Two calls of calculate_layer_dimensions that differ in one argument:    *)
(* the sizing mode, or one dimension of the shape                          *)
(***************************************************************************)
\* dimensions around the breakpoints 64, 512 and 2048 of smart_scale, each
\* with its double where that is in the set
CmpDimVals == {1, 32, 64, 70, 512, 525, 1024, 2048, 2100, 4200}

CmpShapes ==
    {PyTuple(<<PyNone, PyInt(d0)>>) : d0 \in CmpDimVals}
    \cup {PyTuple(<<PyNone, PyInt(d0), PyInt(d1)>>) : d0, d1 \in CmpDimVals}

\* one scale for both planes, in tenths: 0.5 and 1.0
CmpScales == {5, 10}

\* bounds wide enough to leave most sizes unclamped, and narrow ones
CmpBounds ==
    {[min_xy |-> 1, max_xy |-> 2000, min_z |-> 1, max_z |-> 2000],
     [min_xy |-> 20, max_xy |-> 400, min_z |-> 20, max_z |-> 400]}

\* dimension_caps: None, {'sequence': 300}
CmpCaps == {[k \in {} |-> 0], [k \in {"sequence"} |-> 300]}

\* the shapes that differ from sh in exactly one dimension
OneDimChanged(sh) ==
    {t \in CmpShapes :
        /\ Len(t.items) = Len(sh.items)
        /\ Cardinality({k \in 1..Len(sh.items) : t.items[k] # sh.items[k]}) = 1}

CmpInit ==
    /\ \E sh \in CmpShapes, sc \in CmpScales, b \in CmpBounds, o \in {"y", "z"},
          m \in SizingModes, c \in CmpCaps :
          LET a == [shape |-> sh, scale_z |-> sc, scale_xy |-> sc,
                    max_z |-> b.max_z, max_xy |-> b.max_xy,
                    min_z |-> b.min_z, min_xy |-> b.min_xy,
                    one_dim_orientation |-> o, sizing_mode |-> m,
                    dimension_caps |-> c, relative_base_size |-> 2]
          IN  \/ \E m2 \in SizingModes \ {m} :
                    cmp_args = <<a, [a EXCEPT !.sizing_mode = m2]>>
              \/ \E sh2 \in OneDimChanged(sh) :
                    cmp_args = <<a, [a EXCEPT !.shape = sh2]>>
    /\ cmp_out = <<>>
    /\ cpc = "call"
    /\ GraphIdle
    /\ ShapeIdle
    /\ DimIdle
    /\ MulIdle
    /\ LayoutIdle
    /\ WheelIdle
    /\ DrawIdle
    /\ ViewIdle

CmpNext == CalculateNextDimensions

CmpSpec == CmpInit /\ [][CmpNext]_vars

(***************************************************************************)
(* self_multiply on every tuple of up to MaxTupleLen entries               *)
(***************************************************************************)
MulEntries == {PyNone, PyInt(0), PyInt(2), PyInt(3)}

MulInit ==
    /\ mul_arg \in SeqsUpTo(MulEntries, MaxTupleLen)
    /\ mul_out = NoResult
    /\ mpc = "call"
    /\ GraphIdle
    /\ ShapeIdle
    /\ DimIdle
    /\ CmpIdle
    /\ LayoutIdle
    /\ WheelIdle
    /\ DrawIdle
    /\ ViewIdle

MulNext == SelfMultiply

MulSpec == MulInit /\ [][MulNext]_vars

(***************************************************************************)
(* layered_view on every model of up to MaxModelLayers layers              *)
(***************************************************************************)
\* the layers a model is built from: the stack (None, 8, 8, 3) ->
\* (None, 8, 8, 16) -> (None, 16), a wide layer with two outputs, and a spacer
LayerChoices ==
    {[type |-> "InputLayer", spacing |-> 0,
      output_shape |-> PyTuple(<<PyNone, PyInt(8), PyInt(8), PyInt(3)>>)],
     [type |-> "Conv2D", spacing |-> 0,
      output_shape |-> PyTuple(<<PyNone, PyInt(8), PyInt(8), PyInt(16)>>)],
     [type |-> "GlobalAveragePooling2D", spacing |-> 0,
      output_shape |-> PyTuple(<<PyNone, PyInt(16)>>)],
     [type |-> "Lambda", spacing |-> 0,
      output_shape |-> PyList(<<PyTuple(<<PyNone, PyInt(100), PyInt(100), PyInt(3)>>),
                                PyTuple(<<PyNone, PyInt(16)>>)>>)],
     [type |-> "SpacingDummyLayer", spacing |-> 50, output_shape |-> PyNone]}

\* the keyword arguments: the defaults of layered_view, with scale_xy = 4 and
\* scale_z = 0.1 in tenths
DefaultOpts ==
    [min_z |-> 20, min_xy |-> 20, max_z |-> 400, max_xy |-> 2000,
     scale_z |-> 1, scale_xy |-> 40, type_ignore |-> {}, index_ignore |-> {},
     one_dim_orientation |-> "z", index_2D |-> {}, draw_volume |-> TRUE,
     padding |-> 10, spacing |-> 10, sizing_mode |-> "accurate",
     dimension_caps |-> [k \in {} |-> 0], relative_scaling |-> TRUE,
     draw_funnel |-> TRUE, draw_reversed |-> FALSE]

\* nothing ignored, one type ignored, one index ignored
IgnoreChoices ==
    {[type_ignore |-> {}, index_ignore |-> {}],
     [type_ignore |-> {"Conv2D"}, index_ignore |-> {}],
     [type_ignore |-> {}, index_ignore |-> {0}]}

\* volumes throughout, the second layer flat, everything flat
VolumeChoices ==
    {[draw_volume |-> TRUE, index_2D |-> {}],
     [draw_volume |-> TRUE, index_2D |-> {1}],
     [draw_volume |-> FALSE, index_2D |-> {}]}

LayoutInit ==
    /\ model_layers \in SeqsUpTo(LayerChoices, MaxModelLayers) \ {<<>>}
    /\ \E ig \in IgnoreChoices, vol \in VolumeChoices, sp \in {0, 10} :
          lv_opts = [DefaultOpts EXCEPT !.type_ignore = ig.type_ignore,
                                        !.index_ignore = ig.index_ignore,
                                        !.index_2D = vol.index_2D,
                                        !.draw_volume = vol.draw_volume,
                                        !.spacing = sp]
    /\ index = 0
    /\ boxes = <<>>
    /\ layer_y = <<>>
    /\ current_z = FinePx(lv_opts.padding)
    /\ x_off = -600
    /\ img_height = 0
    /\ max_right = 0
    /\ img_width = 0
    /\ img = <<>>
    /\ lpc = "layout"
    /\ GraphIdle
    /\ ShapeIdle
    /\ DimIdle
    /\ CmpIdle
    /\ MulIdle
    /\ WheelIdle
    /\ DrawIdle
    /\ ViewIdle

LayoutNext == LayoutLayer \/ GenerateImage

LayoutSpec == LayoutInit /\ [][LayoutNext]_vars

(***************************************************************************)
(* layered_view from the first layer to the return of the image, with the   *)
(* funnel on and off and the boxes drawn front to back and reversed         *)
(***************************************************************************)
DrawInit ==
    /\ model_layers \in SeqsUpTo(LayerChoices, MaxModelLayers) \ {<<>>}
    /\ \E funnel \in BOOLEAN, reversed \in BOOLEAN :
          lv_opts = [DefaultOpts EXCEPT !.draw_funnel = funnel,
                                        !.draw_reversed = reversed]
    /\ index = 0
    /\ boxes = <<>>
    /\ layer_y = <<>>
    /\ current_z = FinePx(lv_opts.padding)
    /\ x_off = -600
    /\ img_height = 0
    /\ max_right = 0
    /\ img_width = 0
    /\ img = <<>>
    /\ lpc = "layout"
    /\ DrawIdle
    /\ GraphIdle
    /\ ShapeIdle
    /\ DimIdle
    /\ CmpIdle
    /\ MulIdle
    /\ WheelIdle
    /\ ViewIdle

DrawNext ==
    \/ LayoutLayer
    \/ GenerateImage
    \/ BeginDraw
    \/ DrawBack
    \/ DrawFront
    \/ DrawForward
    \/ Flush

DrawSpec == DrawInit /\ [][DrawNext]_vars

(***************************************************************************)
(* One ColorWheel and up to MaxCalls get_color calls on it, as layered_view *)
(* makes them with the type of each layer                                   *)
(***************************************************************************)
\* the class types asked for
ClassTypes == {"InputLayer", "Conv2D", "Dense", "Flatten"}

\* the colours of a colour list given by the caller
Palette == {"red", "blue"}

\* ColorWheel(colors): the default list when colors is None
WheelInit ==
    /\ colors \in {DefaultColors} \cup SeqsUpTo(Palette, MaxColors)
    /\ cache = <<>>
    /\ calls = <<>>
    /\ GraphIdle
    /\ ShapeIdle
    /\ DimIdle
    /\ CmpIdle
    /\ MulIdle
    /\ LayoutIdle
    /\ DrawIdle
    /\ ViewIdle

\* one call color_wheel.get_color(type(layer))
GetColor ==
    /\ Len(calls) < MaxCalls
    /\ \E class_type \in ClassTypes :
          LET r == get_color(cache, colors, class_type)
          IN  /\ cache' = r.cache
              /\ calls' = Append(calls, [type |-> class_type, outcome |-> r.outcome])
    /\ UNCHANGED colors
    /\ UNCHANGED <<graph_vars, shape_vars, dim_vars, cmp_vars,
                   mul_vars, layout_vars, draw_vars, view_vars>>

WheelNext == GetColor

WheelSpec == WheelInit /\ [][WheelNext]_vars

(***************************************************************************)
(* graph_view on a whole model                                             *)
(***************************************************************************)
\* the direct predecessors of a layer
Predecessors(l) == Range(inbound[l])

\* the layers reached from the set S along at most k edges
RECURSIVE ReachFrom(_, _)
ReachFrom(S, k) ==
    IF k = 0 THEN S
    ELSE ReachFrom(S \cup {l \in Range(layers) : Predecessors(l) \cap S # {}}, k - 1)

\* the layers a layer leads to along one edge or more
Descendants(l) ==
    ReachFrom({m \in Range(layers) : l \in Predecessors(m)}, Len(layers))

\* the layer graph has no cycle
Acyclic == \A l \in Range(layers) : l \notin Descendants(l)

\* the layers without an inbound record
InputLayers == {l \in Range(layers) : inbound[l] = <<>>}

\* the option values of graph_view's signature
GraphDefaults ==
    [show_neurons |-> TRUE, ellipsize_after |-> 10, inout_as_tensor |-> TRUE,
     node_size |-> 50, padding |-> 10, layer_spacing |-> 250, node_spacing |-> 10]

\* a Dense layer has units, a Conv2D layer filters, any other layer neither
LayerAttrs(max) ==
    {NoAttr} \cup [kind : {"units"}, n : 1..max] \cup {[kind |-> "filters", n |-> max]}

\* the layers no layer takes its input from
SinkLayers == {l \in Range(layers) : \A m \in Range(layers) : l \notin Predecessors(m)}

\* model.input_shape: one tuple for one input layer, a list of tuples for more
InputShapeOf(num_inputs, size) ==
    IF num_inputs = 1 THEN <<PyNone, PyInt(size)>>
    ELSE [i \in 1..num_inputs |-> PyTuple(<<PyNone, PyInt(size)>>)]

\* the part of the state every graph_view call starts from
ViewStart ==
    /\ adj_matrix = ZeroMatrix(Len(layers))
    /\ id_to_num_mapping = <<>>
    /\ li = 1
    /\ hierarchy = <<>>
    /\ prev_layers = {}
    /\ finished = FALSE
    /\ gpc = "wait"
    /\ inputs = PyNone
    /\ outputs = PyNone
    /\ current_x = 0
    /\ ci = 0
    /\ id_to_node_list_map = <<>>
    /\ gv_layers = <<>>
    /\ gv_layer_y = <<>>
    /\ gv_img = <<>>
    /\ connectors = <<>>
    /\ first_img = <<>>
    /\ vpc = "inout"
    /\ ShapeIdle
    /\ DimIdle
    /\ CmpIdle
    /\ MulIdle
    /\ LayoutIdle
    /\ WheelIdle
    /\ DrawIdle

\* graph_view on a functional model of up to MaxLayers layers with one output
ViewInit ==
    /\ \E n \in 1..MaxLayers :
          /\ layers = [k \in 1..n |-> k]
          /\ inbound \in InboundRecords(n, n, MaxEdges)
          /\ layer_attrs \in [1..n -> {NoAttr, [kind |-> "units", n |-> ViewUnits]}]
    /\ Acyclic
    /\ \A l \in Range(layers) : inbound[l] = <<>> => layer_attrs[l] = NoAttr
    /\ \E l \in SinkLayers, size \in InputSizes :
          model_io = [num_inputs    |-> Cardinality(InputLayers),
                      input_shape   |-> InputShapeOf(Cardinality(InputLayers), size),
                      output_shape  |-> <<PyNone, PyInt(Max2(layer_attrs[l].n, 1))>>,
                      output_layers |-> <<l>>]
    /\ gv_opts \in {[GraphDefaults EXCEPT !.ellipsize_after = ViewEllipsize,
                                          !.inout_as_tensor = t] : t \in BOOLEAN}
    /\ ViewStart

\* graph_view on a chain of up to MaxChain layers after the input layer
NeuronInit ==
    /\ \E n \in 1..(MaxChain + 1) :
          /\ layers = [k \in 1..n |-> k]
          /\ inbound = [k \in 1..n |-> IF k = 1 THEN <<>> ELSE <<k - 1>>]
          /\ layer_attrs \in [1..n -> LayerAttrs(MaxUnits)]
          /\ layer_attrs[1] = NoAttr
          /\ model_io = [num_inputs    |-> 1,
                         input_shape   |-> <<PyNone, PyInt(MaxUnits)>>,
                         output_shape  |-> <<PyNone, PyInt(Max2(layer_attrs[n].n, 1))>>,
                         output_layers |-> <<n>>]
    /\ gv_opts \in {[GraphDefaults EXCEPT !.ellipsize_after = e, !.show_neurons = s] :
                       e \in (-1)..MaxEllipsize, s \in BOOLEAN}
    /\ ViewStart

ViewNext ==
    \/ CountInOut
    \/ AdjLayer
    \/ FindInputs
    \/ HierarchyPass
    \/ AddOutputs
    \/ CreateColumn
    \/ MakeImage
    \/ DrawConnectors
    \/ DrawNodes
    \/ SecondCall

ViewSpec == ViewInit /\ [][ViewNext]_vars

NeuronSpec == NeuronInit /\ [][ViewNext]_vars

(***************************************************************************)
(* Properties of the layer graph pipeline (GraphSpec)                      *)
(***************************************************************************)
\* the layers placed in level k of the hierarchy (k = 1 is level 0)
LevelSet(k) == Range(hierarchy[k])

\* C1: in the returned hierarchy, every layer of a level k > 0 has all its
\* direct predecessors in levels strictly below k, and at least one of them
\* in level k-1.
C1_HierarchyInvariant ==
    gpc = "done" =>
        \A k \in 2..Len(hierarchy) : \A l \in LevelSet(k) :
            /\ \A p \in Predecessors(l) : \E j \in 1..(k - 1) : p \in LevelSet(j)
            /\ \E p \in Predecessors(l) : p \in LevelSet(k - 1)

\* C2: level 0 is exactly the set of layers whose column of the adjacency
\* matrix sums to 0, which are the layers without an inbound record.
C2_InputsAreZeroInDegree ==
    gpc \in {"sweep", "done"} =>
        /\ LevelSet(1) = {l \in Range(layers) :
                            ColumnSum(adj_matrix, Len(layers), id_to_num_mapping[l]) = 0}
        /\ LevelSet(1) = {l \in Range(layers) : inbound[l] = <<>>}

\* C2 witness: a model with at least two input layers and a layer that is
\* not an input, after find_input_layers.
C2_Witness ==
    /\ gpc = "sweep"
    /\ Len(hierarchy) = 1
    /\ Cardinality(LevelSet(1)) >= 2
    /\ \E l \in Range(layers) : l \notin LevelSet(1)

\* C3: after model_to_adj_matrix, the cell of layers i and j holds the number
\* of inbound records of j that name i (repeats counted), so it is positive
\* exactly when an edge from i to j was recorded, and never negative.
C3_AdjacencyCountsRecords ==
    gpc \in {"inputs", "sweep", "done"} =>
        \A i \in Range(layers), j \in Range(layers) :
            LET cell == adj_matrix[<<id_to_num_mapping[i], id_to_num_mapping[j]>>]
            IN  /\ cell = Count(inbound[j], i)
                /\ (cell > 0) <=> (i \in Predecessors(j))
                /\ cell >= 0

\* C3 witness: a layer with two inbound records naming the same predecessor,
\* whose index differs from its position in the model, after the matrix is
\* built.
C3_Witness ==
    /\ gpc = "inputs"
    /\ \E i \in Range(layers), j \in Range(layers) :
          /\ i # j
          /\ Count(inbound[j], i) = 2
          /\ adj_matrix[<<id_to_num_mapping[i], id_to_num_mapping[j]>>] = 2
          /\ id_to_num_mapping[i] # i - 1

(***************************************************************************)
(* Properties of extract_primary_shape (ShapeSpec)                         *)
(***************************************************************************)
\* a single flat tuple: a tuple whose elements are integers or None
IsFlatTuple(v) ==
    /\ v.kind = "tuple"
    /\ \A k \in 1..Len(v.items) : v.items[k].kind \in {"int", "None"}

\* a tuple or list of one or more shape tuples
IsShapeCollection(v) ==
    /\ v.kind \in {"tuple", "list"}
    /\ Len(v.items) >= 1
    /\ \A k \in 1..Len(v.items) : IsFlatTuple(v.items[k])

\* C4: the call either fails or returns a single flat tuple.
C4_FlatTupleOrFails ==
    spc = "done" =>
        \/ shape_out.status = "raised"
        \/ shape_out.status = "returned" /\ IsFlatTuple(shape_out.value)

\* C5: for a tuple or list of shape tuples the call returns element 0 and
\* emits the multi-output warning exactly when there is more than one element.
C5_PrimaryWarnsIffMulti ==
    (spc = "done" /\ IsShapeCollection(raw_shape)) =>
        /\ shape_out.status = "returned"
        /\ shape_out.value = raw_shape.items[1]
        /\ ("multi-output" \in shape_out.warnings) <=> (Len(raw_shape.items) > 1)

\* C6: for None and for an empty list the call does not fail, warns, and
\* returns the default shape (None, 1).
C6_NoneOrEmptyDefaults ==
    (spc = "done" /\ (raw_shape = PyNone \/ raw_shape = PyList(<<>>))) =>
        /\ shape_out.status = "returned"
        /\ shape_out.warnings # {}
        /\ shape_out.value = PyTuple(<<PyNone, PyInt(1)>>)

\* C6 witness: the call on an empty list has returned the default shape.
C6_Witness ==
    /\ spc = "done"
    /\ raw_shape = PyList(<<>>)
    /\ shape_out.status = "returned"
    /\ shape_out.value = PyTuple(<<PyNone, PyInt(1)>>)

(***************************************************************************)
(* Properties of calculate_layer_dimensions (DimSpec)                      *)
(***************************************************************************)
\* the concrete non-batch dimensions of the call's shape
ArgDims == ExtractDims(dim_args.shape.items)

\* clamp(v, lo, hi) = min(max(v, lo), hi), by cases
ClampTo(v, lo, hi) ==
    IF lo > hi THEN hi
    ELSE IF v < lo THEN lo
    ELSE IF v > hi THEN hi
    ELSE v

\* the size a mode's policy gives one value: its transform, then its clamp
PolicySize(mode, a, value, scale, min_val, max_val, cap_val) ==
    IF mode = "accurate" THEN ClampTo(Scaled(value, scale), Px(min_val), Px(max_val))
    ELSE IF mode = "capped" THEN ClampTo(Scaled(value, scale), Px(min_val),
                                         Max2(Px(cap_val), Px(min_val)))
    ELSE IF mode = "balanced" THEN IntTrunc(smart_scale(value, scale, min_val, cap_val))
    ELSE IF mode = "logarithmic" THEN IntTrunc(log_scale(value, scale, min_val, cap_val))
    ELSE proportional_scale(value, a.relative_base_size, min_val, cap_val)

\* C7: with exactly one concrete dimension, the axis named by
\* one_dim_orientation ('x', 'y' or 'z') carries the scaled dimension and the
\* other two axes are at their minimum bound.
C7_OneDimOnNamedAxis ==
    (/\ dpc = "done"
     /\ Len(ArgDims) = 1
     /\ dim_args.sizing_mode \in KnownModes
     /\ dim_args.one_dim_orientation \in {"x", "y", "z"}) =>
        LET a == dim_args
            v == dim_out.value
            m == a.sizing_mode
        IN  /\ dim_out.status = "returned"
            /\ a.one_dim_orientation = "x" =>
                  /\ v[1] = PolicySize(m, a, ArgDims[1], a.scale_xy, a.min_xy,
                                       a.max_xy, sequence_cap(a))
                  /\ v[2] = Px(a.min_xy)
                  /\ v[3] = Px(a.min_z)
            /\ a.one_dim_orientation = "y" =>
                  /\ v[1] = Px(a.min_xy)
                  /\ v[2] = PolicySize(m, a, ArgDims[1], a.scale_xy, a.min_xy,
                                       a.max_xy, sequence_cap(a))
                  /\ v[3] = Px(a.min_z)
            /\ a.one_dim_orientation = "z" =>
                  /\ v[1] = Px(a.min_xy)
                  /\ v[2] = Px(a.min_xy)
                  /\ v[3] = PolicySize(m, a, ArgDims[1], a.scale_z, a.min_z,
                                       a.max_z, channel_cap(a))

\* C8: with exactly one concrete dimension and an axis selector outside
\* 'x', 'y', 'z', the call fails and returns no dimensions.
C8_BadOrientationFails ==
    (/\ dpc = "done"
     /\ Len(ArgDims) = 1
     /\ dim_args.one_dim_orientation \notin {"x", "y", "z"}) =>
        dim_out.status = "raised"

\* C9: in each of the five modes, with three or more concrete dimensions,
\* x and y come from the first two dimensions and z from the product of all
\* the remaining ones, each under the mode's transform and clamp.
C9_DepthFromProduct ==
    (/\ dpc = "done"
     /\ Len(ArgDims) >= 3
     /\ dim_args.sizing_mode \in KnownModes) =>
        LET a == dim_args
            v == dim_out.value
            m == a.sizing_mode
            rest == Product(DimsFrom2(ArgDims))
        IN  /\ dim_out.status = "returned"
            /\ v[1] = PolicySize(m, a, ArgDims[1], a.scale_xy, a.min_xy, a.max_xy,
                                 sequence_cap(a))
            /\ v[2] = PolicySize(m, a, ArgDims[2], a.scale_xy, a.min_xy, a.max_xy,
                                 sequence_cap(a))
            /\ v[3] = PolicySize(m, a, rest, a.scale_z, a.min_z, a.max_z,
                                 channel_cap(a))

\* C10: in accurate mode x = clamp(d0 * scale_xy, min_xy, max_xy),
\* y = clamp(d1 * scale_xy, min_xy, max_xy), for two dimensions
\* z = clamp(d1 * scale_z, min_z, max_z), and every axis lies within its
\* bounds whenever min <= max.
C10_AccurateIsClamp ==
    (dpc = "done" /\ dim_args.sizing_mode = "accurate") =>
        LET a == dim_args
            v == dim_out.value
        IN  /\ dim_out.status = "returned"
            /\ Len(ArgDims) >= 2 =>
                  /\ v[1] = ClampTo(Scaled(ArgDims[1], a.scale_xy), Px(a.min_xy), Px(a.max_xy))
                  /\ v[2] = ClampTo(Scaled(ArgDims[2], a.scale_xy), Px(a.min_xy), Px(a.max_xy))
            /\ Len(ArgDims) = 2 =>
                  v[3] = ClampTo(Scaled(ArgDims[2], a.scale_z), Px(a.min_z), Px(a.max_z))
            /\ a.min_xy <= a.max_xy =>
                  /\ Px(a.min_xy) <= v[1] /\ v[1] <= Px(a.max_xy)
                  /\ Px(a.min_xy) <= v[2] /\ v[2] <= Px(a.max_xy)
            /\ a.min_z <= a.max_z =>
                  Px(a.min_z) <= v[3] /\ v[3] <= Px(a.max_z)

\* C10 witness: an accurate call on a 2-D shape with min < max has returned
\* an unclamped x, a y clamped down to max_xy and a z equal to d1 * scale_z,
\* which differs from what the first dimension would give.
C10_Witness ==
    /\ dpc = "done"
    /\ dim_args.sizing_mode = "accurate"
    /\ Len(ArgDims) = 2
    /\ dim_args.min_xy < dim_args.max_xy
    /\ dim_out.value[1] = Scaled(ArgDims[1], dim_args.scale_xy)
    /\ dim_out.value[1] > Px(dim_args.min_xy)
    /\ dim_out.value[2] = Px(dim_args.max_xy)
    /\ dim_out.value[2] < Scaled(ArgDims[2], dim_args.scale_xy)
    /\ dim_out.value[3] = Scaled(ArgDims[2], dim_args.scale_z)
    /\ dim_out.value[3] # Scaled(ArgDims[1], dim_args.scale_z)

\* C11: in capped mode with two concrete dimensions (d0, d1),
\* x = clamp(d0 * scale_xy, min_xy, sequence cap),
\* y = clamp(d1 * scale_xy, min_xy, sequence cap) and
\* z = clamp(d1 * scale_z, min_z, channels cap), a missing cap being the
\* global max.
C11_CappedTwoDims ==
    (/\ dpc = "done"
     /\ dim_args.sizing_mode = "capped"
     /\ Len(ArgDims) = 2) =>
        LET a == dim_args
            v == dim_out.value
        IN  /\ dim_out.status = "returned"
            /\ v[1] = PolicySize("capped", a, ArgDims[1], a.scale_xy, a.min_xy,
                                 a.max_xy, sequence_cap(a))
            /\ v[2] = PolicySize("capped", a, ArgDims[2], a.scale_xy, a.min_xy,
                                 a.max_xy, sequence_cap(a))
            /\ v[3] = PolicySize("capped", a, ArgDims[2], a.scale_z, a.min_z,
                                 a.max_z, channel_cap(a))

(***************************************************************************)
(* Properties of two calls of calculate_layer_dimensions (CmpSpec)         *)
(***************************************************************************)
\* the concrete non-batch dimensions of the i-th call's shape
CmpDims(i) == ExtractDims(cmp_args[i].shape.items)

\* the two calls differ in nothing but the sizing mode
SameButMode ==
    cmp_args[2] = [cmp_args[1] EXCEPT !.sizing_mode = cmp_args[2].sizing_mode]

\* a size strictly between its lower and upper bound
Unclamped(v, lo, hi) == Px(lo) < v /\ v < Px(hi)

\* C12: for a 2-D shape whose two dimensions both exceed 64, with the same
\* scaling parameters and no x or y of either mode at a bound, balanced mode
\* returns a strictly smaller x and a strictly smaller y than accurate mode.
C12_BalancedBelowAccurate ==
    (cpc = "done" /\ SameButMode) =>
        \A i, j \in {1, 2} :
            (/\ cmp_args[i].sizing_mode = "accurate"
             /\ cmp_args[j].sizing_mode = "balanced"
             /\ Len(CmpDims(i)) = 2
             /\ CmpDims(i)[1] > 64 /\ CmpDims(i)[2] > 64
             /\ \A k \in {1, 2} :
                   /\ Unclamped(cmp_out[i].value[k], cmp_args[i].min_xy, cmp_args[i].max_xy)
                   /\ Unclamped(cmp_out[j].value[k], cmp_args[j].min_xy,
                                sequence_cap(cmp_args[j]))) =>
                /\ cmp_out[j].value[1] < cmp_out[i].value[1]
                /\ cmp_out[j].value[2] < cmp_out[i].value[2]

\* C12 witness: the shape (None, 1024, 512) sized in accurate mode and then
\* in balanced mode, no x or y at a bound, balanced smaller on both.
C12_Witness ==
    /\ cpc = "done"
    /\ SameButMode
    /\ cmp_args[1].sizing_mode = "accurate"
    /\ cmp_args[2].sizing_mode = "balanced"
    /\ CmpDims(1) = <<1024, 512>>
    /\ \A k \in {1, 2} :
          /\ Unclamped(cmp_out[1].value[k], cmp_args[1].min_xy, cmp_args[1].max_xy)
          /\ Unclamped(cmp_out[2].value[k], cmp_args[2].min_xy, sequence_cap(cmp_args[2]))
          /\ cmp_out[2].value[k] < cmp_out[1].value[k]

\* the dimension an axis shows for a shape of n concrete dimensions (0: none)
AxisSource(n, orientation, axis) ==
    IF n = 1
    THEN IF (orientation = "y" /\ axis = 2) \/ (orientation # "y" /\ axis = 3)
         THEN 1 ELSE 0
    ELSE IF axis = 1 THEN 1 ELSE 2

\* the lower and upper bound of an axis
AxisMin(a, axis) == IF axis = 3 THEN a.min_z ELSE a.min_xy
AxisCap(a, axis) == IF axis = 3 THEN channel_cap(a) ELSE sequence_cap(a)

\* the two calls are in the given mode and differ in nothing but the shape
SameButShape(mode) ==
    /\ cmp_args[1].sizing_mode = mode
    /\ cmp_args[2] = [cmp_args[1] EXCEPT !.shape = cmp_args[2].shape]

\* C13: in relative mode, when a dimension d of the first call is 2d in the
\* second and the axis showing it is at no bound in either call, the size is
\* d * relative_base_size in the first call and exactly twice that in the
\* second.
C13_RelativeDoubling ==
    (cpc = "done" /\ SameButShape("relative") /\ Len(CmpDims(1)) = Len(CmpDims(2))) =>
        \A axis \in 1..3 :
            LET a == cmp_args[1]
                k == AxisSource(Len(CmpDims(1)), a.one_dim_orientation, axis)
            IN  (/\ k # 0
                 /\ CmpDims(1)[k] > 0
                 /\ CmpDims(2)[k] = 2 * CmpDims(1)[k]
                 /\ Unclamped(cmp_out[1].value[axis], AxisMin(a, axis), AxisCap(a, axis))
                 /\ Unclamped(cmp_out[2].value[axis], AxisMin(a, axis), AxisCap(a, axis))) =>
                    /\ cmp_out[1].value[axis] = Px(CmpDims(1)[k] * a.relative_base_size)
                    /\ cmp_out[2].value[axis] = 2 * cmp_out[1].value[axis]

\* C13 witness: relative mode on (None, 64, 32) and then on (None, 64, 64):
\* y and z are at no bound in either call and have doubled.
C13_Witness ==
    /\ cpc = "done"
    /\ SameButShape("relative")
    /\ CmpDims(1) = <<64, 32>>
    /\ CmpDims(2) = <<64, 64>>
    /\ \A axis \in {2, 3} :
          /\ Unclamped(cmp_out[1].value[axis], AxisMin(cmp_args[1], axis),
                       AxisCap(cmp_args[1], axis))
          /\ Unclamped(cmp_out[2].value[axis], AxisMin(cmp_args[1], axis),
                       AxisCap(cmp_args[1], axis))
          /\ cmp_out[2].value[axis] = 2 * cmp_out[1].value[axis]

C15_NoDimsGivesMinBox ==
    (dpc = "done" /\ ArgDims = <<>>) =>
        /\ dim_out.status = "returned"
        /\ dim_out.value = <<Px(dim_args.min_xy), Px(dim_args.min_xy), Px(dim_args.min_z)>>

\* C15 witness: a logarithmic call on (None, None, None) with orientation
\* 'x' has returned the minimum box, whose depth differs from its width.
C15_Witness ==
    /\ dpc = "done"
    /\ dim_args.shape = PyTuple(<<PyNone, PyNone, PyNone>>)
    /\ dim_args.sizing_mode = "logarithmic"
    /\ dim_args.one_dim_orientation = "x"
    /\ dim_args.min_xy # dim_args.min_z
    /\ dim_out.value = <<Px(dim_args.min_xy), Px(dim_args.min_xy), Px(dim_args.min_z)>>

\* the entries of a tuple that are not None
RECURSIVE NonNone(_)
NonNone(xs) ==
    IF xs = <<>> THEN <<>>
    ELSE (IF xs[1].kind = "None" THEN <<>> ELSE <<xs[1]>>) \o NonNone(Tail(xs))

\* C16: self_multiply(s) is the product of the entries of s that are not
\* None, whatever their number and position, and 0 when s has none.
C16_ProductOfNonNone ==
    mpc = "done" =>
        /\ mul_out.status = "returned"
        /\ mul_out.value = IF NonNone(mul_arg) = <<>> THEN PyInt(0)
                           ELSE PyInt(Product(NonNone(mul_arg)))

(***************************************************************************)
(* Properties of layered_view (LayoutSpec)                                 *)
(***************************************************************************)
\* C17: with spacing >= 0 the placed boxes have strictly increasing x1 in
\* layer order, and each box's x1 is at or beyond the previous box's x2.
C17_BoxesDoNotOverlap ==
    (lpc \in {"image", "placed"} /\ lv_opts.spacing >= 0) =>
        \A i \in 2..Len(boxes) :
            /\ boxes[i].x1 > boxes[i - 1].x1
            /\ boxes[i].x1 >= boxes[i - 1].x2

\* the 3-layer stack (None, 8, 8, 3) -> (None, 8, 8, 16) -> (None, 16)
StackShapes ==
    <<PyTuple(<<PyNone, PyInt(8), PyInt(8), PyInt(3)>>),
      PyTuple(<<PyNone, PyInt(8), PyInt(8), PyInt(16)>>),
      PyTuple(<<PyNone, PyInt(16)>>)>>

\* layered_view has laid out the 3-layer stack in accurate mode with
\* scale_xy = 4, scale_z = 0.1, min_xy = 20, min_z = 20, no layer ignored and
\* every box drawn as a volume
StackPlaced ==
    /\ lpc = "placed"
    /\ Len(model_layers) = 3
    /\ \A k \in 1..3 : model_layers[k].output_shape = StackShapes[k]
    /\ lv_opts.sizing_mode = "accurate"
    /\ lv_opts.scale_xy = 40 /\ lv_opts.scale_z = 1
    /\ lv_opts.min_xy = 20 /\ lv_opts.min_z = 20
    /\ lv_opts.type_ignore = {} /\ lv_opts.index_ignore = {}
    /\ lv_opts.draw_volume /\ lv_opts.index_2D = {}

\* the sum of the boxes' depth extents, from box k on
RECURSIVE DepthExtents(_)
DepthExtents(k) ==
    IF k > Len(boxes) THEN 0
    ELSE (boxes[k].x2 - boxes[k].x1) + DepthExtents(k + 1)

\* depth extents plus inter-box spacing plus padding on both ends
PlainWidth ==
    DepthExtents(1) + (Len(boxes) - 1) * FinePx(lv_opts.spacing)
    + 2 * FinePx(lv_opts.padding)

\* C18 (as stated): for the 3-layer stack there are exactly 3 boxes and the
\* canvas width is the sum of the boxes' depth extents plus the inter-box
\* spacing plus the padding on both ends.
C18_CanvasWidthIsPlainSum ==
    StackPlaced =>
        /\ Len(boxes) = 3
        /\ \/ img_width = PlainWidth
           \/ FinePx(img.width) = PlainWidth

\* C18 (amended): for the 3-layer stack there are exactly 3 boxes and the
\* canvas width is that sum plus half the depth offset of the first box and
\* half the depth offset of the last box, rounded up to whole pixels for the
\* image.
C18_CanvasWidthWithOffsets ==
    StackPlaced =>
        /\ Len(boxes) = 3
        /\ img_width = PlainWidth + boxes[1].de \div 2 + boxes[3].de \div 2
        /\ img.width = CeilPx(img_width)

\* C18 witness: the stack laid out with padding 10 and spacing 10: three
\* boxes of depth 20, a width of 108 2/3 pixels and an image 109 pixels wide.
C18_Witness ==
    /\ StackPlaced
    /\ lv_opts.padding = 10 /\ lv_opts.spacing = 10
    /\ Len(boxes) = 3
    /\ \A k \in 1..3 : boxes[k].x2 - boxes[k].x1 = FinePx(20)
    /\ img_width = FinePx(108) + 400
    /\ img.width = 109

\* C19: after layout and centering every box with its depth extension, from
\* x1 to x2 + de and from y1 - de to y2, lies inside the canvas, at least
\* `padding` pixels from the left and from the right edge.
C19_BoxesInsideCanvas ==
    lpc = "placed" =>
        \A i \in 1..Len(boxes) :
            /\ boxes[i].x1 >= FinePx(lv_opts.padding)
            /\ boxes[i].x2 + boxes[i].de <= FinePx(img.width) - FinePx(lv_opts.padding)
            /\ boxes[i].y1 - boxes[i].de >= 0
            /\ boxes[i].y2 <= FinePx(img.height)

\* C20: in the layout loop an ignored layer changes nothing, a
\* SpacingDummyLayer adds no box and advances the running coordinate by its
\* spacing, and every other layer adds one box at the end of the list and
\* advances the running coordinate by that box's depth extent plus the
\* inter-layer spacing.
C20_LayerFrameEffect ==
    [][lpc = "layout" =>
        LET layer == model_layers[index + 1]
        IN  IF IsIgnored(layer, index, lv_opts)
            THEN UNCHANGED <<boxes, layer_y, current_z, x_off, img_height, max_right>>
            ELSE IF layer.type = "SpacingDummyLayer"
            THEN /\ boxes' = boxes
                 /\ current_z' = current_z + FinePx(layer.spacing)
            ELSE /\ Len(boxes') = Len(boxes) + 1
                 /\ SubSeq(boxes', 1, Len(boxes)) = boxes
                 /\ boxes'[Len(boxes')].layer = index
                 /\ current_z' = current_z
                                 + (boxes'[Len(boxes')].x2 - boxes'[Len(boxes')].x1)
                                 + FinePx(lv_opts.spacing)]_vars

\* C20 witness: the loop has run over an ignored layer, a spacer of 50 and
\* one rendered layer, with a positive inter-layer spacing: one box, and the
\* running coordinate at padding + 50 + depth + spacing.
C20_Witness ==
    /\ lpc = "image"
    /\ Len(model_layers) = 3
    /\ \E i, j, k \in 0..2 :
          /\ IsIgnored(model_layers[i + 1], i, lv_opts)
          /\ ~IsIgnored(model_layers[j + 1], j, lv_opts)
          /\ model_layers[j + 1].type = "SpacingDummyLayer"
          /\ ~IsIgnored(model_layers[k + 1], k, lv_opts)
          /\ model_layers[k + 1].type # "SpacingDummyLayer"
    /\ lv_opts.spacing > 0
    /\ Len(boxes) = 1
    /\ current_z = FinePx(lv_opts.padding + 50 + lv_opts.spacing)
                   + (boxes[1].x2 - boxes[1].x1)

(***************************************************************************)
(* Termination and shape of the hierarchy (GraphLiveSpec, GraphSpec)        *)
(***************************************************************************)
\* a pass of the loop that adds no layer to prev_layers
PassAdmitsNoNewLayer ==
    /\ gpc = "sweep"
    /\ gpc' \in {"sweep", "done"}
    /\ prev_layers' = prev_layers

\* C28 as stated: model_to_hierarchy_lists terminates on every finite layer
\* graph, cycles and unreachable layers included, and a pass that admits no
\* new layer is the last pass of the loop.
C28_StopsWhenNothingNew ==
    /\ <>(gpc = "done")
    /\ [][PassAdmitsNoNewLayer => finished']_vars

\* C28 as the code has it: model_to_hierarchy_lists terminates on every
\* finite layer graph, cycles and unreachable layers included, with at most
\* one level per layer and one empty level more; the loop stops at the first
\* pass that visits no outgoing edge of the last level, and the pass that
\* follows a pass which admitted no layer at all is such a pass.
C28_Terminates ==
    /\ <>(gpc = "done")
    /\ [][Len(hierarchy') <= Len(layers') + 1]_vars
    /\ [][(gpc = "sweep" /\ hierarchy[Len(hierarchy)] = <<>>) => finished']_vars
    /\ [][(gpc = "sweep" /\ finished') =>
            /\ hierarchy' = hierarchy
            /\ \A l \in LevelSet(Len(hierarchy)) :
                  \A m \in Range(layers) : l \notin Predecessors(m)]_vars

\* C28 witness: the function has returned on a graph with a cycle and a
\* layer that no input layer leads to, after a pass that admitted no layer
\* and left an empty last level.
C28_Witness ==
    /\ gpc = "done"
    /\ ~Acyclic
    /\ \E l \in Range(layers) : l \notin ReachFrom(InputLayers, Len(layers))
    /\ Len(hierarchy) = 2
    /\ hierarchy[2] = <<>>

\* the number of places the layer l takes in the returned hierarchy
RECURSIVE Occurrences(_, _)
Occurrences(l, k) ==
    IF k = 0 THEN 0
    ELSE Count(hierarchy[k], l) + Occurrences(l, k - 1)

\* C29: in the list model_to_hierarchy_lists returns for an acyclic layer
\* graph, whatever the index order of its layers, every layer appears in at
\* most one level and at most once within that level.
C29_EachLayerPlacedOnce ==
    (gpc = "done" /\ Acyclic) =>
        \A l \in Range(layers) : Occurrences(l, Len(hierarchy)) <= 1

(***************************************************************************)
(* Monotonicity of the balanced mode (CmpSpec)                             *)
(***************************************************************************)
\* the dimension shown by an axis (1 = x, 2 = y, 3 = z) in balanced mode, 0
\* when the axis shows none
BalancedSource(n, orientation, axis) ==
    IF n = 1
    THEN IF (orientation = "y" /\ axis = 2) \/ (orientation # "y" /\ axis = 3)
         THEN 1 ELSE 0
    ELSE IF axis = 3 THEN (IF n > 2 THEN 3 ELSE 0) ELSE axis

\* C30: in balanced mode, for the same scales and bounds and two shapes that
\* differ in one dimension, the axis showing the larger dimension is never
\* smaller than the axis showing the smaller one, the breakpoints 64, 512
\* and 2048 included.
C30_BalancedMonotonic ==
    (cpc = "done" /\ SameButShape("balanced") /\ Len(CmpDims(1)) = Len(CmpDims(2))) =>
        \A axis \in 1..3 :
            LET k == BalancedSource(Len(CmpDims(1)), cmp_args[1].one_dim_orientation, axis)
            IN  (k # 0 /\ CmpDims(1)[k] < CmpDims(2)[k]) =>
                    cmp_out[1].value[axis] <= cmp_out[2].value[axis]

(***************************************************************************)
(* Properties of ColorWheel (WheelSpec)                                    *)
(***************************************************************************)
\* the first call that asked for the type of call i
FirstCall(i) == CHOOSE j \in 1..i :
                    /\ calls[j].type = calls[i].type
                    /\ \A h \in 1..(j - 1) : calls[h].type # calls[i].type

\* the number of distinct types asked for before the type of call i was
\* first asked for
SeenBefore(i) == Cardinality({calls[j].type : j \in 1..(FirstCall(i) - 1)})

\* C27: after any sequence of get_color calls on one ColorWheel with a
\* non-empty colour list, every call returns, and a call for the k-th
\* distinct type (0-based, in first-seen order) returns colors[k mod
\* len(colors)], on the first request and on every later one.
C27_ColorByFirstSeenOrder ==
    Len(colors) > 0 =>
        \A i \in 1..Len(calls) :
            calls[i].outcome = ColorReturned(colors[(SeenBefore(i) % Len(colors)) + 1])

\* C27 witness: a wheel of two different colours asked for three distinct
\* types and then for the first type again: the third type wraps around to
\* the first colour and the repeated type keeps its colour.
C27_Witness ==
    /\ Len(colors) = 2
    /\ colors[1] # colors[2]
    /\ Len(calls) = 4
    /\ Cardinality({calls[i].type : i \in 1..3}) = 3
    /\ calls[4].type = calls[1].type
    /\ calls[3].outcome = ColorReturned(colors[1])
    /\ calls[4].outcome = ColorReturned(colors[1])

(***************************************************************************)
(* Properties of the funnel of layered_view (DrawSpec)                     *)
(***************************************************************************)
\* layered_view has ended after the layout: with the image returned or with
\* an exception of the drawing
DrawingEnded == lpc = "done" \/ draw_error # "none"

\* C21: when layered_view has placed N >= 1 boxes, it has emitted exactly
\* 4 * (N - 1) funnel segments with draw_funnel on, drawing front to back or
\* reversed, and exactly 0 with draw_funnel off.
C21_FunnelSegmentCount ==
    (DrawingEnded /\ Len(boxes) >= 1) =>
        Len(lines) = IF lv_opts.draw_funnel THEN 4 * (Len(boxes) - 1) ELSE 0

\* a SpacingDummyLayer lies between the layers of the boxes at positions i
\* and j of boxes
SpacerBetween(i, j) ==
    \E k \in 1..Len(model_layers) :
        /\ model_layers[k].type = "SpacingDummyLayer"
        /\ \/ boxes[i].layer < k - 1 /\ k - 1 < boxes[j].layer
           \/ boxes[j].layer < k - 1 /\ k - 1 < boxes[i].layer

\* C22: with draw_funnel on, every funnel segment joins two placed boxes,
\* so none leads into the first placed box from nothing, and no segment
\* joins two boxes that have a SpacingDummyLayer between them in the layer
\* sequence.
C22_NoFunnelAcrossSpacer ==
    lv_opts.draw_funnel =>
        \A n \in 1..Len(lines) :
            /\ lines[n].src \in 1..Len(boxes)
            /\ lines[n].dst \in 1..Len(boxes)
            /\ lines[n].src # lines[n].dst
            /\ ~SpacerBetween(lines[n].src, lines[n].dst)

(***************************************************************************)
(* Nodes of a layer in graph_view (NeuronSpec)                             *)
(***************************************************************************)
\* the layers whose nodes have been created and that are drawn by neuron
NeuronLayers ==
    {l \in DOMAIN id_to_node_list_map :
        gv_opts.show_neurons /\ AttrOf(l).kind \in {"units", "filters"}}

\* the positions (1-based) of the Ellipses nodes of a layer
EllipsesAt(l) ==
    {k \in 1..Len(id_to_node_list_map[l]) : id_to_node_list_map[l][k].kind = "Ellipses"}

\* the nodes of a layer are Circles only
OnlyCircles(l) ==
    \A k \in 1..Len(id_to_node_list_map[l]) : id_to_node_list_map[l][k].kind = "Circle"

C24_NoPlaceholderWithoutElision ==
    \A l \in NeuronLayers :
        AttrOf(l).n <= gv_opts.ellipsize_after =>
            /\ Len(id_to_node_list_map[l]) = AttrOf(l).n
            /\ OnlyCircles(l)

(***************************************************************************)
(* Connectors and canvas width of graph_view (ViewSpec)                    *)
(***************************************************************************)
\* the nodes created, each with its column and its position in the column
PlacedNodes ==
    {<<a, p>> \in (1..Len(gv_layers)) \X (1..(MaxLayers * (ViewUnits + 1))) :
        p <= Len(gv_layers[a])}

\* the node at a place
NodeAt(place) == gv_layers[place[1]][place[2]]

\* a connector has been drawn from the node s to the node e
Connected(s, e) ==
    \E k \in 1..Len(connectors) :
        /\ connectors[k].src[1] = s.layer
        /\ connectors[k].dst[1] = e.layer
        /\ connectors[k].xy = <<s.x2, s.y1 + (s.y2 - s.y1) \div 2,
                                e.x1, e.y1 + (e.y2 - e.y1) \div 2>>

\* the connectors have been drawn
ConnectorsDrawn == vpc \in {"nodes", "done"}

\* C25: a connector joins primitive p of layer i and primitive q of layer j
\* if and only if the adjacency matrix has a positive entry for (i, j) and
\* neither primitive is an Ellipses.
C25_ConnectorIffAdjacent ==
    ConnectorsDrawn =>
        \A sp \in PlacedNodes, ep \in PlacedNodes :
            Connected(NodeAt(sp), NodeAt(ep))
            <=> /\ adj_matrix[<<id_to_num_mapping[NodeAt(sp).layer],
                                id_to_num_mapping[NodeAt(ep).layer]>>] > 0
                /\ NodeAt(sp).kind # "Ellipses"
                /\ NodeAt(ep).kind # "Ellipses"

\* the number of scalars of the model's single input tensor
InputScalars == self_multiply(model_io.input_shape).value.val

\* both calls on the model have returned
BothCallsDone == vpc = "done" /\ first_img # <<>>

\* C26: for the same model whose input tensor holds more than one scalar,
\* the image of the call with inout_as_tensor=False is strictly wider than
\* the image of the call with inout_as_tensor=True.
C26_FlattenedIsWider ==
    (BothCallsDone /\ model_io.num_inputs = 1 /\ InputScalars > 1) =>
        IF gv_opts.inout_as_tensor
        THEN first_img.width > gv_img.width
        ELSE gv_img.width > first_img.width

====
